---- MODULE Spec2Model ----
(***************************************************************************)
(* Webhook payload generation (saleor/webhook/payloads.py) and the         *)
(* authorization-aware resolvers of the App GraphQL types                  *)
(* (saleor/graphql/app/types.py).                                          *)
(*                                                                         *)
(* Conventions.  An optional value (Python None or an object) is a         *)
(* sequence of length at most one: Null is None / JSON null, Some(v) is    *)
(* the value v.  A JSON object is a function from key strings to values, a *)
(* JSON list is a sequence.  A monetary amount is an integer number of     *)
(* thousandths of the currency's major unit (the database keeps three      *)
(* decimal places).                                                        *)
(***************************************************************************)
EXTENDS Integers, Sequences, FiniteSets, TLC

VARIABLES phase, kind, ent, call, req, args, payload, raised, now, gql

vars == <<phase, kind, ent, call, req, args, payload, raised, now, gql>>

(***************************************************************************)
(* Bounds of the model.                                                    *)
(***************************************************************************)
\* number of clock ticks, counted from its start, that a dispatch can last
MaxTime == 2
\* number of dimensions in which a loaded entity may differ from the plain one
MaxVariation == 1

(***************************************************************************)
(* Optional values, dictionaries.                                          *)
(***************************************************************************)
Null == <<>>

Some(v) == <<v>>

IsNull(o) == Len(o) = 0

Val(o) == o[1]

\* dict.update: the keys of b are added to a, replacing equal keys
Merge(a, b) ==
    [k \in (DOMAIN a) \cup (DOMAIN b) |-> IF k \in DOMAIN b THEN b[k] ELSE a[k]]

\* the serializer's projection of the attributes named in fields
Project(obj, fields) == [f \in fields |-> obj[f]]

\* an attribute whose value plays no part in the payload logic
Opaque(fields) == [f \in fields |-> "x"]

(***************************************************************************)
(* Currencies and quantization (saleor/core/prices.py).                    *)
(***************************************************************************)
Currencies == {"USD", "JPY"}

\* decimal places stored by the database
DbPlaces == 3

\* minor-unit precision of a currency
Precision(currency) == IF currency = "JPY" THEN 0 ELSE 2

RECURSIVE Pow10(_)
Pow10(n) == IF n = 0 THEN 1 ELSE 10 * Pow10(n - 1)

\* the quantum of a currency, in thousandths
Quantum(currency) == Pow10(DbPlaces - Precision(currency))

\* quantize_price(price, currency): Decimal.quantize, rounding half to even
quantize_price(price, currency) ==
    LET q == Quantum(currency)
        lo == (price \div q) * q
        r == price - lo
    IN  IF 2 * r < q THEN lo
        ELSE IF 2 * r > q THEN lo + q
        ELSE IF (lo \div q) % 2 = 0 THEN lo ELSE lo + q

\* quantize_price_fields(model, fields, currency): replaces, in the object
\* in memory, each named attribute by its quantized value
quantize_price_fields(model, fields, currency) ==
    [f \in DOMAIN model |->
        IF f \in fields THEN quantize_price(model[f], currency) ELSE model[f]]

\* an amount lies on the minor-unit grid of its currency
IsQuantized(amount, currency) == amount % Quantum(currency) = 0

\* sample amounts: 1234 is quantized in no currency, 1500 in USD only,
\* 2000 in both
Amounts == {1234, 1500, 2000}

(***************************************************************************)
(* Global ids, requestors and the meta envelope.                           *)
(***************************************************************************)
\* str(id): a missing id is formatted as the text None
Str(id) == IF IsNull(id) THEN "None" ELSE ToString(Val(id))

\* graphene.Node.to_global_id(type, id): the text "<type>:<str(id)>", which
\* the library then encodes in base64
to_global_id(type, id) == type \o ":" \o Str(id)

\* saleor.__version__
Version == "3.5"

UserRequestor == [cls |-> "User", id |-> Some(1), name |-> "x"]
AnonymousRequestor == [cls |-> "AnonymousUser", id |-> Null, name |-> "x"]
AppRequestor == [cls |-> "App", id |-> Some(7), name |-> "shop-app"]

\* the requestors a payload can be issued for
Requestors == {Null, Some(UserRequestor), Some(AnonymousRequestor),
               Some(AppRequestor)}

generate_requestor_app(requestor) ==
    [id |-> Some(Val(requestor).name), type |-> Some("app")]

\* a slip: an app is identified by its primary key, not by its name
generate_requestor_AppById(requestor) ==
    IF IsNull(requestor)
    THEN [id |-> Null, type |-> Null]
    ELSE IF Val(requestor).cls \in {"User", "AnonymousUser"}
    THEN [id |-> Some(to_global_id("User", Val(requestor).id)),
          type |-> Some("user")]
    ELSE [id |-> Some(to_global_id("App", Val(requestor).id)),
          type |-> Some("app")]

generate_requestor(requestor) ==
    IF IsNull(requestor)
    THEN [id |-> Null, type |-> Null]
    ELSE IF Val(requestor).cls \in {"User", "AnonymousUser"}
    THEN [id |-> Some(to_global_id("User", Val(requestor).id)),
          type |-> Some("user")]
    ELSE generate_requestor_app(requestor)

\* the words that key.split("_") yields for the keys in use
KeyWords ==
    {"issued", "at", "version", "issuing", "principal", "trace", "id",
     "issuedAt"}

\* "_".join(words)
SnakeJoin(words) ==
    IF Len(words) = 1 THEN words[1] ELSE words[1] \o "_" \o words[2]

\* key.split("_")
SnakeSplit(key) ==
    CHOOSE words \in {<<w>> : w \in KeyWords}
                        \cup {<<w1, w2>> : w1 \in KeyWords, w2 \in KeyWords} :
        SnakeJoin(words) = key

\* word.capitalize()
Capitalize(word) ==
    CASE word = "at" -> "At"
      [] word = "principal" -> "Principal"
      [] word = "id" -> "Id"
      [] word = "issued" -> "Issued"
      [] word = "issuing" -> "Issuing"
      [] word = "trace" -> "Trace"
      [] word = "version" -> "Version"
      [] OTHER -> "Issuedat"

\* graphene's to_camel_case: the first component as it is, the others
\* capitalized
to_camel_case(key) ==
    LET components == SnakeSplit(key)
    IN  IF Len(components) = 1 THEN components[1]
        ELSE components[1] \o Capitalize(components[2])

\* the dict that assigning the items in order builds: for a key assigned
\* twice the later value stays
DictOf(items) ==
    [k \in {items[i][1] : i \in 1..Len(items)} |->
        items[CHOOSE i \in 1..Len(items) :
                 /\ items[i][1] = k
                 /\ \A j \in 1..Len(items) : items[j][1] = k => j <= i][2]]

\* dict.items() after meta_result.update(kwargs): the built-in keys keep
\* their place and take the new values, new keys follow in their order
UpdatedItems(items, kwargs) ==
    LET updated == DictOf(items \o kwargs)
        keys == {items[i][1] : i \in 1..Len(items)}
        added == SelectSeq(kwargs, LAMBDA kw : kw[1] \notin keys)
    IN  [i \in 1..Len(items) |-> <<items[i][1], updated[items[i][1]]>>]
            \o added

\* a slip: the camel-cased keys are added next to the snake_case keys
generate_meta_kwargs_KeepSnake(requestor_data, camel_case, kwargs, time) ==
    LET meta_result ==
            UpdatedItems(<<<<"issued_at", time>>, <<"version", Version>>,
                           <<"issuing_principal", requestor_data>>>>, kwargs)
    IN  IF camel_case
        THEN DictOf(meta_result
                      \o [i \in 1..Len(meta_result) |->
                            <<to_camel_case(meta_result[i][1]),
                              meta_result[i][2]>>])
        ELSE DictOf(meta_result)

\* generate_meta(requestor_data=..., camel_case=..., **kwargs), kwargs as
\* the sequence of its <<name, value>> pairs
generate_meta_kwargs(requestor_data, camel_case, kwargs, time) ==
    LET meta_result ==
            UpdatedItems(<<<<"issued_at", time>>, <<"version", Version>>,
                           <<"issuing_principal", requestor_data>>>>, kwargs)
    IN  IF camel_case
        THEN DictOf([i \in 1..Len(meta_result) |->
                        <<to_camel_case(meta_result[i][1]),
                          meta_result[i][2]>>])
        ELSE DictOf(meta_result)

\* generate_meta(requestor_data=...) without extra keyword arguments
generate_meta(requestor_data, time) ==
    generate_meta_kwargs(requestor_data, FALSE, <<>>, time)

\* the keyword arguments generate_meta is called with
KwargNames == {"issued_at", "version", "issuing_principal", "trace_id",
               "issuedAt"}

\* the value passed for a keyword argument
KwargValue(name, position) ==
    CASE name \in {"issued_at", "issuedAt"} -> 100 + position
      [] name = "issuing_principal" ->
            [id |-> Some("kwarg"), type |-> Some("kwarg")]
      [] OTHER -> "kwarg" \o ToString(position)

Kwargs ==
    {<<>>}
      \cup {<<<<n, KwargValue(n, 1)>>>> : n \in KwargNames}
      \cup {<<<<n[1], KwargValue(n[1], 1)>>, <<n[2], KwargValue(n[2], 2)>>>> :
                n \in {m \in KwargNames \X KwargNames : m[1] # m[2]}}

Meta(requestor, time) == generate_meta(generate_requestor(requestor), time)

(***************************************************************************)
(* Field allowlists.                                                       *)
(***************************************************************************)
ADDRESS_FIELDS ==
    {"first_name", "last_name", "company_name", "street_address_1",
     "street_address_2", "city", "city_area", "postal_code", "country",
     "country_area", "phone"}

ORDER_PRICE_FIELDS ==
    {"shipping_price_net_amount", "shipping_price_gross_amount",
     "total_net_amount", "total_gross_amount",
     "undiscounted_total_net_amount", "undiscounted_total_gross_amount"}

ORDER_FIELDS ==
    {"status", "origin", "shipping_method_name", "collection_point_name",
     "shipping_tax_rate", "weight", "language_code", "private_metadata",
     "metadata"} \cup ORDER_PRICE_FIELDS

line_price_fields ==
    {"unit_price_gross_amount", "unit_price_net_amount",
     "unit_discount_amount", "total_price_net_amount",
     "total_price_gross_amount", "undiscounted_unit_price_net_amount",
     "undiscounted_unit_price_gross_amount",
     "undiscounted_total_price_net_amount",
     "undiscounted_total_price_gross_amount"}

line_fields ==
    {"product_name", "variant_name", "translated_product_name",
     "translated_variant_name", "product_sku", "quantity", "currency",
     "unit_discount_type", "unit_discount_reason", "tax_rate", "sale_id",
     "voucher_code"} \cup line_price_fields

fulfillment_price_fields == {"shipping_refund_amount", "total_refund_amount"}

\* the fulfillment fields of the order payload
order_fulfillment_fields ==
    {"status", "tracking_number"} \cup fulfillment_price_fields

\* the fulfillment fields of the fulfillment payload
fulfillment_fields ==
    {"status", "tracking_code", "order__user_email"}
        \cup fulfillment_price_fields

payment_price_fields == {"captured_amount", "total"}

payment_fields ==
    {"gateway", "payment_method_type", "cc_brand", "is_active", "partial",
     "charge_status", "psp_reference", "currency", "billing_email",
     "billing_first_name", "billing_last_name", "billing_company_name",
     "billing_address_1", "billing_address_2", "billing_city",
     "billing_city_area", "billing_postal_code", "billing_country_code",
     "billing_country_area"} \cup payment_price_fields

discount_price_fields == {"amount_value"}

discount_fields ==
    {"type", "value_type", "value", "name", "translated_name", "reason"}
        \cup discount_price_fields

channel_fields == {"slug", "currency_code"}

collection_point_fields ==
    {"name", "email", "click_and_collect_option", "is_private"}

shipping_method_fields == {"name", "type"}

(***************************************************************************)
(* The serializer (saleor/webhook/payload_serializers.py).                 *)
(***************************************************************************)
\* the head of every serialized object: its type and its global id
ObjectHead(type_name, obj, obj_id_name) ==
    (obj_id_name :> to_global_id(type_name, obj.id)) @@ [type |-> type_name]

\* PayloadSerializer.get_dump_object: head, allowlisted fields, then the
\* already evaluated additional_fields and extra_dict_data
SerializeObject(type_name, obj, obj_id_name, fields, rest) ==
    Merge(Merge(ObjectHead(type_name, obj, obj_id_name),
                \* the primary key is serialized by the head only
                Project(obj, fields \ {"id"})),
          rest)

\* an additional_fields entry for a single related object: null when the
\* related object is missing
SerializeRelated(type_name, related, fields) ==
    IF IsNull(related) THEN Null
    ELSE Some(Merge(ObjectHead(type_name, Val(related), "id"),
                    Project(Val(related), fields)))

\* an additional_fields entry for a collection of related objects: null
\* when the collection is empty
SerializeRelatedMany(type_name, related, fields) ==
    IF Len(related) = 0 THEN Null
    ELSE Some([i \in 1..Len(related) |->
                 Merge(ObjectHead(type_name, related[i], "id"),
                       Project(related[i], fields))])

(***************************************************************************)
(* Domain entities, as the object graph held in memory.                    *)
(***************************************************************************)
Address(country) ==
    Merge(Opaque(ADDRESS_FIELDS), [id |-> Some(1), country |-> country])

Warehouse(id, country) ==
    Merge(Opaque(collection_point_fields),
          [id |-> Some(id), address |-> Some(Address(country))])

Channel(id, currency) ==
    [id |-> Some(id), slug |-> "x", currency_code |-> currency]

\* a shipping method and its channel listings
ShippingMethod(listings) ==
    Merge(Opaque(shipping_method_fields),
          [id |-> Some(1), channel_listings |-> listings])

ShippingListing(channel_id, currency, amount) ==
    [channel_id |-> Some(channel_id), currency |-> currency,
     price_amount |-> amount]

Variant == [id |-> Some(1), weight_g |-> 500, product_type_name |-> "x"]

OrderLine(currency, amount, variant) ==
    Merge(Merge(Opaque(line_fields \ line_price_fields),
                [f \in line_price_fields |-> amount]),
          [id |-> Some(1), currency |-> currency, quantity |-> 2,
           variant |-> variant,
           product_variant_id |->
               IF IsNull(variant) THEN Null
               ELSE Some(to_global_id("ProductVariant", Val(variant).id)),
           allocations |-> <<[quantity_allocated |-> 1, warehouse_id |-> Some(1)]>>])

\* an order line of three units sold below their undiscounted price
DiscountedOrderLine(currency, amount, variant) ==
    [OrderLine(currency, amount, variant) EXCEPT
        !.unit_price_net_amount = 1000,
        !.unit_price_gross_amount = 1000,
        !.quantity = 3]

Stock(warehouse) ==
    [id |-> Some(1), warehouse_id |-> warehouse.id, warehouse |-> warehouse]

FulfillmentLine(order_line, stock) ==
    [id |-> Some(1), quantity |-> 2, order_line |-> order_line, stock |-> stock]

Fulfillment(amount, lines) ==
    Merge(Opaque((order_fulfillment_fields \cup fulfillment_fields)
                    \ fulfillment_price_fields),
          [id |-> Some(1), shipping_refund_amount |-> amount,
           total_refund_amount |-> amount, created_at |-> "x",
           lines |-> lines])

Payment(currency, amount) ==
    Merge(Opaque(payment_fields \ payment_price_fields),
          [id |-> Some(1), currency |-> currency, total |-> amount,
           captured_amount |-> amount, created_at |-> "x",
           modified_at |-> "x"])

Discount(amount) ==
    Merge(Opaque(discount_fields \ discount_price_fields),
          [id |-> Some(1), amount_value |-> amount])

OtherCurrency(currency) == IF currency = "USD" THEN "JPY" ELSE "USD"

(***************************************************************************)
(* The orders that can be loaded.  An order is described by a              *)
(* configuration; the loaded orders differ from the plain configuration in *)
(* at most MaxVariation dimensions.                                        *)
(***************************************************************************)
OrderConfigs ==
    [currency : Currencies,
     amount : Amounts,
     nested_amount : Amounts,
     original : {"none", "some"},
     collection_point : {"none", "some"},
     shipping_method : {"none", "unlisted", "listed"},
     lines : {"none", "one", "no_variant", "discounted"},
     fulfillments : {"none", "empty", "stocked", "unstocked"},
     payments : {"none", "same", "other"},
     discounts : {"none", "one"},
     shipping_address : {"none", "some"},
     prefetched : BOOLEAN]

\* a complete order whose amounts are not yet quantized
PlainOrderConfig ==
    [currency |-> "USD", amount |-> 1234, nested_amount |-> 1234,
     original |-> "none", collection_point |-> "none",
     shipping_method |-> "listed", lines |-> "one", fulfillments |-> "stocked",
     payments |-> "same", discounts |-> "one", shipping_address |-> "some",
     prefetched |-> FALSE]

Variation(cfg, plain) == Cardinality({d \in DOMAIN cfg : cfg[d] # plain[d]})

MkFulfillmentLines(cfg) ==
    LET ol == IF cfg.lines = "discounted"
              THEN DiscountedOrderLine(cfg.currency, cfg.nested_amount,
                                       Some(Variant))
              ELSE OrderLine(cfg.currency, cfg.nested_amount, Some(Variant))
    IN  CASE cfg.fulfillments = "stocked" ->
                <<FulfillmentLine(ol, Some(Stock(Warehouse(2, "PL"))))>>
          [] cfg.fulfillments = "unstocked" -> <<FulfillmentLine(ol, Null)>>
          [] OTHER -> <<>>

MkOrder(cfg) ==
    Merge(Merge(Opaque(ORDER_FIELDS \ ORDER_PRICE_FIELDS),
                [f \in ORDER_PRICE_FIELDS |-> cfg.amount]),
      [id |-> Some(1),
       currency |-> cfg.currency,
       user_email |-> "x",
       created_at |-> "x",
       original_id |-> IF cfg.original = "none" THEN Null ELSE Some(2),
       channel |-> Some(Channel(1, cfg.currency)),
       shipping_address |->
           IF cfg.shipping_address = "none" THEN Null ELSE Some(Address("US")),
       billing_address |-> Some(Address("US")),
       collection_point |->
           IF cfg.collection_point = "none" THEN Null
           ELSE Some(Warehouse(1, "US")),
       shipping_method |->
           CASE cfg.shipping_method = "none" -> Null
             [] cfg.shipping_method = "unlisted" ->
                    Some(ShippingMethod(
                        <<ShippingListing(2, cfg.currency, cfg.nested_amount)>>))
             [] OTHER ->
                    Some(ShippingMethod(
                        <<ShippingListing(2, cfg.currency, cfg.nested_amount),
                          ShippingListing(1, cfg.currency, cfg.nested_amount)>>)),
       lines |->
           CASE cfg.lines = "none" -> <<>>
             [] cfg.lines = "one" ->
                    <<OrderLine(cfg.currency, cfg.nested_amount, Some(Variant))>>
             [] cfg.lines = "discounted" ->
                    <<DiscountedOrderLine(cfg.currency, cfg.nested_amount,
                                          Some(Variant))>>
             [] OTHER -> <<OrderLine(cfg.currency, cfg.nested_amount, Null)>>,
       fulfillments |->
           IF cfg.fulfillments = "none" THEN <<>>
           ELSE <<Fulfillment(cfg.nested_amount, MkFulfillmentLines(cfg))>>,
       payments |->
           CASE cfg.payments = "none" -> <<>>
             [] cfg.payments = "same" ->
                    <<Payment(cfg.currency, cfg.nested_amount)>>
             [] OTHER ->
                    <<Payment(OtherCurrency(cfg.currency), cfg.nested_amount)>>,
       discounts |->
           IF cfg.discounts = "none" THEN <<>>
           ELSE <<Discount(cfg.nested_amount)>>,
       prefetched |-> cfg.prefetched])

Orders ==
    {MkOrder(cfg) : cfg \in {c \in OrderConfigs :
                                Variation(c, PlainOrderConfig) <= MaxVariation}}

(***************************************************************************)
(* Results of a builder: what was raised, the payload and the object graph *)
(* as the call leaves it.                                                  *)
(***************************************************************************)
Returned(objects, entity) ==
    [raised |-> "none", payload |-> objects, ent |-> entity]

Raised(error, entity) == [raised |-> error, payload |-> <<>>, ent |-> entity]

(***************************************************************************)
(* Order payload.                                                          *)
(***************************************************************************)
\* QuerySet.filter(channel=channel).first()
FirstListing(shipping_method, channel) ==
    LET ls == shipping_method.channel_listings
        hits == {i \in 1..Len(ls) : ls[i].channel_id = channel.id}
    IN  IF hits = {} THEN Null
        ELSE Some(ls[CHOOSE i \in hits : \A j \in hits : i <= j])

\* _generate_shipping_method_payload raises when the method has no listing
\* in the channel: the attributes of None are read
ShippingMethodRaises(shipping_method, channel) ==
    /\ ~IsNull(shipping_method)
    /\ IsNull(FirstListing(Val(shipping_method), Val(channel)))

ShippingListingPrice(listing) ==
    quantize_price(listing.price_amount, listing.currency)

\* _generate_shipping_method_payload, when it returns
_generate_shipping_method_payload(shipping_method, channel) ==
    IF IsNull(shipping_method) THEN Null
    ELSE LET listing == Val(FirstListing(Val(shipping_method), Val(channel)))
         IN  Some(SerializeObject("ShippingMethod", Val(shipping_method), "id",
                    shipping_method_fields,
                    [currency |-> listing.currency,
                     price_amount |-> ShippingListingPrice(listing)]))

_generate_collection_point_payload(warehouse) ==
    SerializeObject("Warehouse", warehouse, "id", collection_point_fields,
        [address |-> SerializeRelated("Address", warehouse.address,
                                      ADDRESS_FIELDS)])

prepare_order_lines_allocations_payload(line) ==
    [i \in 1..Len(line.allocations) |->
        [quantity_allocated |-> line.allocations[i].quantity_allocated,
         warehouse_id |->
             to_global_id("Warehouse", line.allocations[i].warehouse_id)]]

\* the lines as generate_order_lines_payload leaves them in memory
QuantizedLines(lines) ==
    [i \in 1..Len(lines) |->
        quantize_price_fields(lines[i], line_price_fields, lines[i].currency)]

generate_order_lines_payload(lines) ==
    LET ls == QuantizedLines(lines)
    IN  [i \in 1..Len(ls) |->
            SerializeObject("OrderLine", ls[i], "id", line_fields,
                [product_variant_id |-> ls[i].product_variant_id,
                 total_price_net_amount |-> ls[i].total_price_net_amount,
                 total_price_gross_amount |-> ls[i].total_price_gross_amount,
                 allocations |-> prepare_order_lines_allocations_payload(ls[i])])]

\* a slip: the product of price and quantity is quantized
FulfillmentLineTotal_QuantizedProduct(unit_price, currency, quantity) ==
    quantize_price(unit_price * quantity, currency)

FulfillmentLineTotal(unit_price, currency, quantity) ==
    quantize_price(unit_price, currency) * quantity

generate_fulfillment_lines_payload(fulfillment) ==
    LET lines == fulfillment.lines
    IN  [i \in 1..Len(lines) |->
          LET fl == lines[i]
              ol == fl.order_line
          IN  SerializeObject("FulfillmentLine", fl, "id", {"quantity"},
                [product_name |-> ol.product_name,
                 variant_name |-> ol.variant_name,
                 product_sku |-> ol.product_sku,
                 product_variant_id |-> ol.product_variant_id,
                 weight |-> IF IsNull(ol.variant) THEN Null
                            ELSE Some(Val(ol.variant).weight_g),
                 weight_unit |-> "gram",
                 product_type |-> IF IsNull(ol.variant) THEN Null
                                  ELSE Some(Val(ol.variant).product_type_name),
                 unit_price_net |->
                     quantize_price(ol.unit_price_net_amount, ol.currency),
                 unit_price_gross |->
                     quantize_price(ol.unit_price_gross_amount, ol.currency),
                 undiscounted_unit_price_net |->
                     quantize_price(ol.undiscounted_unit_price_net_amount,
                                    ol.currency),
                 undiscounted_unit_price_gross |->
                     quantize_price(ol.undiscounted_unit_price_gross_amount,
                                    ol.currency),
                 total_price_net_amount |->
                     FulfillmentLineTotal(ol.undiscounted_unit_price_net_amount,
                                          ol.currency, fl.quantity),
                 total_price_gross_amount |->
                     FulfillmentLineTotal(ol.undiscounted_unit_price_gross_amount,
                                          ol.currency, fl.quantity),
                 currency |-> ol.currency,
                 warehouse_id |->
                     IF IsNull(fl.stock) THEN Null
                     ELSE Some(to_global_id("Warehouse",
                                            Val(fl.stock).warehouse_id)),
                 sale_id |-> ol.sale_id,
                 voucher_code |-> ol.voucher_code])]

\* quantize_price_fields over every object of a collection
QuantizedAll(objects, fields, currency) ==
    [i \in 1..Len(objects) |->
        quantize_price_fields(objects[i], fields, currency)]

\* the currency generate_order_payload quantizes a payment with
PaymentQuantizeCurrency(order, payment) == order.currency

QuantizedPayments(order) ==
    [i \in 1..Len(order.payments) |->
        quantize_price_fields(order.payments[i], payment_price_fields,
                              PaymentQuantizeCurrency(order, order.payments[i]))]

_generate_order_payment_payload(payments) ==
    [i \in 1..Len(payments) |->
        SerializeObject("Payment", payments[i], "id", payment_fields,
            [created |-> payments[i].created_at,
             modified |-> payments[i].modified_at])]

\* a slip: the order is quantized with the precision of another currency
OrderAfterPayload_OtherCurrency(order) ==
    quantize_price_fields(order, ORDER_PRICE_FIELDS,
                          OtherCurrency(order.currency))

\* the order as generate_order_payload leaves it in memory: its own price
\* fields are quantized in place; the related objects are those of the
\* prefetch cache when the relations were prefetched, and otherwise objects
\* fetched for this call only
OrderAfterPayload(order) ==
    LET own == quantize_price_fields(order, ORDER_PRICE_FIELDS, order.currency)
    IN  IF order.prefetched
        THEN [own EXCEPT
                !.lines = QuantizedLines(order.lines),
                !.fulfillments =
                    QuantizedAll(order.fulfillments, fulfillment_price_fields,
                                 order.currency),
                !.payments = QuantizedPayments(order),
                !.discounts =
                    QuantizedAll(order.discounts, discount_price_fields,
                                 order.currency)]
        ELSE own

OrderPayloadObject(order, requestor, with_meta, time) ==
    LET own == quantize_price_fields(order, ORDER_PRICE_FIELDS, order.currency)
        fulfillments == QuantizedAll(order.fulfillments,
                                     fulfillment_price_fields, order.currency)
        payments == QuantizedPayments(order)
        discounts == QuantizedAll(order.discounts, discount_price_fields,
                                  order.currency)
        fulfillments_data ==
            [i \in 1..Len(fulfillments) |->
                SerializeObject("Fulfillment", fulfillments[i], "id",
                    order_fulfillment_fields,
                    [lines |-> generate_fulfillment_lines_payload(fulfillments[i]),
                     created |-> fulfillments[i].created_at])]
        extra_dict_data ==
            [id |-> to_global_id("Order", order.id),
             token |-> Str(order.id),
             user_email |-> order.user_email,
             created |-> order.created_at,
             original |-> Some(to_global_id("Order", order.original_id)),
             lines |-> generate_order_lines_payload(order.lines),
             fulfillments |-> fulfillments_data,
             collection_point |->
                 IF IsNull(order.collection_point) THEN Null
                 ELSE Some(_generate_collection_point_payload(
                               Val(order.collection_point))),
             payments |-> _generate_order_payment_payload(payments),
             shipping_method |->
                 _generate_shipping_method_payload(order.shipping_method,
                                                   order.channel)]
        with_meta_data ==
            IF with_meta
            THEN Merge(extra_dict_data, [meta |-> Meta(requestor, time)])
            ELSE extra_dict_data
    IN  SerializeObject("Order", own, "id", ORDER_FIELDS,
            Merge([channel |-> SerializeRelated("Channel", order.channel,
                                                channel_fields),
                   shipping_address |->
                       SerializeRelated("Address", order.shipping_address,
                                        ADDRESS_FIELDS),
                   billing_address |->
                       SerializeRelated("Address", order.billing_address,
                                        ADDRESS_FIELDS),
                   discounts |->
                       SerializeRelatedMany("OrderDiscount", discounts,
                                            discount_fields)],
                  with_meta_data))

\* generate_order_payload(order, requestor, with_meta)
generate_order_payload(order, requestor, with_meta, time) ==
    IF ShippingMethodRaises(order.shipping_method, order.channel)
    THEN Raised("AttributeError",
                \* the quantization precedes the failing call
                OrderAfterPayload(order))
    ELSE Returned(<<OrderPayloadObject(order, requestor, with_meta, time)>>,
                  OrderAfterPayload(order))

(***************************************************************************)
(* Invoice payload.                                                        *)
(***************************************************************************)
invoice_fields == {"id", "number", "external_url", "created"}

\* an invoice with or without its order
Invoice(order) ==
    [id |-> Some(1), number |-> "x", external_url |-> "x", created |-> "x",
     order |-> order]

Invoices == {Invoice(Null)} \cup {Invoice(Some(o)) : o \in Orders}

_generate_order_payload_for_invoice(order) ==
    SerializeObject("Order", order, "id", ORDER_FIELDS,
        [token |-> order.id, user_email |-> order.user_email,
         created |-> order.created_at])

\* the order of the invoice, quantized in place when there is one
InvoiceAfterPayload(invoice) ==
    IF IsNull(invoice.order) THEN invoice
    ELSE [invoice EXCEPT !.order =
            Some(quantize_price_fields(Val(invoice.order), ORDER_PRICE_FIELDS,
                                       Val(invoice.order).currency))]

\* generate_invoice_payload(invoice, requestor): the order payload reads the
\* attributes of invoice.order also when the invoice has no order
generate_invoice_payload(invoice, requestor, time) ==
    IF IsNull(invoice.order)
    THEN Raised("AttributeError", invoice)
    ELSE LET after == InvoiceAfterPayload(invoice)
         IN  Returned(
               <<SerializeObject("Invoice", after, "id", invoice_fields,
                   [meta |-> Meta(requestor, time),
                    order |-> _generate_order_payload_for_invoice(
                                  Val(after.order))])>>,
               after)

(***************************************************************************)
(* Checkout payload.                                                       *)
(***************************************************************************)
checkout_fields ==
    {"last_change", "status", "email", "quantity", "currency",
     "discount_amount", "discount_name", "language_code", "private_metadata",
     "metadata"}

checkout_price_fields == {"discount_amount"}

user_fields == {"email", "first_name", "last_name"}

CheckoutConfigs ==
    [currency : Currencies,
     amount : Amounts,
     shipping_address : {"none", "some"},
     warehouse : {"none", "some"},
     collection_point : {"none", "some"},
     shipping_method : {"none", "unlisted", "listed"},
     user : {"none", "some"}]

PlainCheckoutConfig ==
    [currency |-> "USD", amount |-> 1234, shipping_address |-> "some",
     warehouse |-> "some", collection_point |-> "none",
     shipping_method |-> "listed", user |-> "some"]

\* warehouse_for_country is what Warehouse.objects.for_country(code).first()
\* finds in the database for the country of the shipping address
MkCheckout(cfg) ==
    Merge(Opaque(checkout_fields),
      [id |-> Some(1),
       currency |-> cfg.currency,
       discount_amount |-> cfg.amount,
       created_at |-> "x",
       lines_data |-> <<[sku |-> "x", quantity |-> 1]>>,
       channel |-> Some(Channel(1, cfg.currency)),
       user |-> IF cfg.user = "none" THEN Null
                ELSE Some(Merge(Opaque(user_fields), [id |-> Some(1)])),
       billing_address |-> Some(Address("US")),
       shipping_address |->
           IF cfg.shipping_address = "none" THEN Null ELSE Some(Address("US")),
       warehouse_for_country |->
           IF cfg.warehouse = "none" THEN Null ELSE Some(Warehouse(3, "US")),
       collection_point |->
           IF cfg.collection_point = "none" THEN Null
           ELSE Some(Warehouse(1, "US")),
       shipping_method |->
           CASE cfg.shipping_method = "none" -> Null
             [] cfg.shipping_method = "unlisted" ->
                    Some(ShippingMethod(
                        <<ShippingListing(2, cfg.currency, cfg.amount)>>))
             [] OTHER ->
                    Some(ShippingMethod(
                        <<ShippingListing(1, cfg.currency, cfg.amount)>>))])

Checkouts ==
    {MkCheckout(cfg) : cfg \in {c \in CheckoutConfigs :
                                   Variation(c, PlainCheckoutConfig)
                                       <= MaxVariation}}

CheckoutAfterPayload(checkout) ==
    quantize_price_fields(checkout, checkout_price_fields, checkout.currency)

\* the warehouse whose address the checkout payload reports
CheckoutWarehouse(checkout) ==
    IF IsNull(checkout.shipping_address) THEN Null
    ELSE checkout.warehouse_for_country

CheckoutPayloadObject(checkout, requestor, time) ==
    LET own == CheckoutAfterPayload(checkout)
        warehouse == CheckoutWarehouse(checkout)
    IN  SerializeObject("Checkout", own, "token", checkout_fields,
          [channel |-> SerializeRelated("Channel", checkout.channel,
                                        channel_fields),
           user |-> SerializeRelated("User", checkout.user, user_fields),
           billing_address |->
               SerializeRelated("Address", checkout.billing_address,
                                ADDRESS_FIELDS),
           shipping_address |->
               SerializeRelated("Address", checkout.shipping_address,
                                ADDRESS_FIELDS),
           warehouse_address |->
               SerializeRelated("Address",
                   IF IsNull(warehouse) THEN Null ELSE Val(warehouse).address,
                   ADDRESS_FIELDS),
           shipping_method |->
               _generate_shipping_method_payload(checkout.shipping_method,
                                                 checkout.channel),
           lines |-> checkout.lines_data,
           collection_point |->
               IF IsNull(checkout.collection_point) THEN Null
               ELSE Some(_generate_collection_point_payload(
                             Val(checkout.collection_point))),
           meta |-> Meta(requestor, time),
           created |-> checkout.created_at])

\* generate_checkout_payload(checkout, requestor)
generate_checkout_payload(checkout, requestor, time) ==
    IF ShippingMethodRaises(checkout.shipping_method, checkout.channel)
    THEN Raised("AttributeError", CheckoutAfterPayload(checkout))
    ELSE Returned(<<CheckoutPayloadObject(checkout, requestor, time)>>,
                  CheckoutAfterPayload(checkout))

\* generate_list_gateways_payload(currency, checkout): checkout is an
\* optional checkout, currency an optional currency code
generate_list_gateways_payload(currency, checkout, time) ==
    IF IsNull(checkout)
    THEN Returned(<<[checkout |-> Null, currency |-> currency]>>, checkout)
    ELSE LET inner == generate_checkout_payload(Val(checkout), Null, time)
         IN  IF inner.raised # "none" THEN Raised(inner.raised, Some(inner.ent))
             ELSE Returned(<<[checkout |-> Some(inner.payload[1]),
                              currency |-> currency]>>,
                           Some(inner.ent))

(***************************************************************************)
(* Excluded shipping methods.                                              *)
(***************************************************************************)
\* ShippingMethodData with a price of the given amount and currency
ShippingMethodData(amount, currency) ==
    [graphql_id |-> "x", price |-> [amount |-> amount, currency |-> currency],
     name |-> "x", maximum_order_weight |-> "x", minimum_order_weight |-> "x",
     maximum_delivery_days |-> "x", minimum_delivery_days |-> "x"]

\* the lists of available shipping methods handed to the builders
AvailableShippingMethods ==
    {<<>>} \cup {<<ShippingMethodData(a, c)>> : a \in Amounts, c \in Currencies}

ShippingMethodDataPrice(method) == method.price.amount

_generate_payload_for_shipping_method(method) ==
    [id |-> method.graphql_id,
     price |-> ShippingMethodDataPrice(method),
     currency |-> method.price.currency,
     name |-> method.name,
     maximum_order_weight |-> method.maximum_order_weight,
     minimum_order_weight |-> method.minimum_order_weight,
     maximum_delivery_days |-> method.maximum_delivery_days,
     minimum_delivery_days |-> method.minimum_delivery_days]

ShippingMethodsPayload(methods) ==
    [i \in 1..Len(methods) |-> _generate_payload_for_shipping_method(methods[i])]

generate_excluded_shipping_methods_for_order_payload(order, methods, time) ==
    LET inner == generate_order_payload(order, Null, TRUE, time)
    IN  IF inner.raised # "none" THEN inner
        ELSE Returned(<<[order |-> inner.payload[1],
                         shipping_methods |-> ShippingMethodsPayload(methods)]>>,
                      inner.ent)

generate_excluded_shipping_methods_for_checkout_payload(checkout, methods, time) ==
    LET inner == generate_checkout_payload(checkout, Null, time)
    IN  IF inner.raised # "none" THEN inner
        ELSE Returned(<<[checkout |-> inner.payload[1],
                         shipping_methods |-> ShippingMethodsPayload(methods)]>>,
                      inner.ent)

(***************************************************************************)
(* Fulfillment payload.                                                    *)
(***************************************************************************)
\* a fulfillment in memory: the first fulfillment of its order, with the
\* order itself and with what Warehouse.objects.for_country(country).first()
\* finds in the database for the order's country
MkFulfillment(cfg, warehouse) ==
    Merge(MkOrder(cfg).fulfillments[1],
          [order |-> MkOrder(cfg), warehouse_for_country |-> warehouse])

Fulfillments ==
    {MkFulfillment(cfg, w) :
        cfg \in {c \in OrderConfigs :
                    /\ c.fulfillments # "none"
                    /\ Variation(c, PlainOrderConfig) <= MaxVariation},
        w \in {Null, Some(Warehouse(3, "US"))}}

\* the warehouse generate_fulfillment_payload takes the address from
FulfillmentWarehouse(fulfillment) ==
    IF Len(fulfillment.lines) > 0 /\ ~IsNull(fulfillment.lines[1].stock)
    THEN Some(Val(fulfillment.lines[1].stock).warehouse)
    ELSE fulfillment.warehouse_for_country

\* reading warehouse.address raises when no warehouse was found
FulfillmentWarehouseRaises(fulfillment) ==
    IsNull(FulfillmentWarehouse(fulfillment))

\* a slip: the order of the fulfillment is left quantized with the precision
\* of another currency
FulfillmentAfterPayload_OtherCurrency(fulfillment) ==
    [quantize_price_fields(fulfillment, fulfillment_price_fields,
                           fulfillment.order.currency)
        EXCEPT !.order = OrderAfterPayload_OtherCurrency(fulfillment.order)]
\* the fulfillment as generate_fulfillment_payload leaves it in memory
FulfillmentAfterPayload(fulfillment) ==
    [quantize_price_fields(fulfillment, fulfillment_price_fields,
                           fulfillment.order.currency)
        EXCEPT !.order = OrderAfterPayload(fulfillment.order)]

\* generate_fulfillment_payload(fulfillment, requestor)
generate_fulfillment_payload(fulfillment, requestor, time) ==
    LET after == FulfillmentAfterPayload(fulfillment)
        order_data == generate_order_payload(fulfillment.order, Null, FALSE, time)
    IN  IF order_data.raised # "none" THEN Raised(order_data.raised, after)
        ELSE IF FulfillmentWarehouseRaises(fulfillment)
        THEN Raised("AttributeError", after)
        ELSE Returned(
               <<SerializeObject("Fulfillment", after, "id", fulfillment_fields,
                   [warehouse_address |->
                        SerializeRelated("Address",
                            Val(FulfillmentWarehouse(fulfillment)).address,
                            ADDRESS_FIELDS),
                    order |-> order_data.payload[1],
                    lines |-> generate_fulfillment_lines_payload(fulfillment),
                    meta |-> Meta(requestor, time)])>>,
               after)

(***************************************************************************)
(* Customer, collection, page, product and variant payloads.               *)
(***************************************************************************)
customer_fields ==
    {"email", "first_name", "last_name", "is_active", "date_joined",
     "language_code", "private_metadata", "metadata"}

\* a customer with optional default addresses and a list of addresses
Customer(shipping, billing, addresses) ==
    Merge(Opaque(customer_fields),
          [id |-> Some(1), default_shipping_address |-> shipping,
           default_billing_address |-> billing, addresses |-> addresses])

Customers ==
    {Customer(s, b, a) : s \in {Null, Some(Address("US"))},
                         b \in {Null, Some(Address("US"))},
                         a \in {<<>>, <<Address("US")>>}}

generate_customer_payload(customer, requestor, time) ==
    Returned(
      <<SerializeObject("User", customer, "id", customer_fields,
          [default_shipping_address |->
               SerializeRelated("Address", customer.default_shipping_address,
                                ADDRESS_FIELDS),
           default_billing_address |->
               SerializeRelated("Address", customer.default_billing_address,
                                ADDRESS_FIELDS),
           addresses |->
               SerializeRelatedMany("Address", customer.addresses,
                                    ADDRESS_FIELDS),
           meta |-> Meta(requestor, time)])>>,
      customer)

collection_fields ==
    {"name", "description", "background_image_alt", "private_metadata",
     "metadata"}

Collection(image) ==
    Merge(Opaque(collection_fields),
          [id |-> Some(1), background_image |-> image])

Collections == {Collection(Null), Collection(Some("x"))}

\* build_absolute_uri(url)
build_absolute_uri(url) == <<"https://shop", url>>

generate_collection_payload(collection, requestor, time) ==
    Returned(
      <<SerializeObject("Collection", collection, "id", collection_fields,
          [background_image |->
               IF IsNull(collection.background_image) THEN Null
               ELSE Some(build_absolute_uri(Val(collection.background_image))),
           meta |-> Meta(requestor, time)])>>,
      collection)

page_fields ==
    {"private_metadata", "metadata", "title", "content", "published_at",
     "is_published", "updated_at"}

Page(published_at) ==
    Merge(Opaque(page_fields),
          [id |-> Some(1), published_at |-> published_at])

Pages == {Page(Null), Page(Some("2022-01-01")), Page(Some("2022-06-01"))}

\* the key under which generate_page_payload stores the meta envelope
PageMetaKey == "data"

generate_page_payload(page, requestor, time) ==
    Returned(
      <<SerializeObject("Page", page, "id", page_fields,
          (PageMetaKey :> Meta(requestor, time))
              @@ [publication_date |-> page.published_at])>>,
      page)

PRODUCT_FIELDS ==
    {"name", "description", "currency", "updated_at", "charge_taxes",
     "weight", "publication_date", "is_published", "private_metadata",
     "metadata"}

PRODUCT_VARIANT_FIELDS ==
    {"sku", "name", "track_inventory", "private_metadata", "metadata"}

variant_listing_fields == {"currency", "price_amount", "cost_price_amount"}

VariantListing(currency, price, cost) ==
    [id |-> Some(1), currency |-> currency, price_amount |-> price,
     cost_price_amount |-> cost, channel |-> Channel(1, currency)]

ProductVariant(id, listings) ==
    Merge(Opaque(PRODUCT_VARIANT_FIELDS),
          [id |-> Some(id), product_id |-> Some(1), attributes |-> <<>>,
           media |-> <<>>, channel_listings |-> listings])

\* the iterables of variants handed to generate_product_variant_payload
VariantLists ==
    {<<>>, <<ProductVariant(1, <<>>)>>}
      \cup {<<ProductVariant(1, <<VariantListing(c, p, k)>>)>> :
                c \in Currencies, p \in Amounts, k \in Amounts}
      \cup {<<ProductVariant(1, <<VariantListing("USD", 2000, 2000)>>),
              ProductVariant(2, <<VariantListing("JPY", 1234, 1500)>>)>>}

\* the price generate_product_variant_listings_payload reports for a listing
VariantListingAmount(listing, field) == listing[field]

generate_product_variant_listings_payload(listings) ==
    [i \in 1..Len(listings) |->
        SerializeObject("ProductVariantChannelListing", listings[i], "id",
            {"currency"},
            [price_amount |-> VariantListingAmount(listings[i], "price_amount"),
             cost_price_amount |->
                 VariantListingAmount(listings[i], "cost_price_amount"),
             channel_slug |-> listings[i].channel.slug])]

generate_product_variant_payload(variants, requestor, with_meta, time) ==
    Returned(
      [i \in 1..Len(variants) |->
        LET v == variants[i]
            extra_dict_data ==
              [id |-> to_global_id("ProductVariant", v.id),
               attributes |-> v.attributes,
               product_id |-> to_global_id("Product", v.product_id),
               media |-> v.media,
               channel_listings |->
                   generate_product_variant_listings_payload(v.channel_listings)]
        IN  SerializeObject("ProductVariant", v, "id", PRODUCT_VARIANT_FIELDS,
              IF with_meta
              THEN Merge(extra_dict_data, [meta |-> Meta(requestor, time)])
              ELSE extra_dict_data)],
      variants)

Product ==
    Merge(Opaque(PRODUCT_FIELDS),
          [id |-> Some(1), variants |-> <<ProductVariant(1, <<>>)>>])

product_channel_listing_fields ==
    {"published_at", "is_published", "visible_in_listings",
     "available_for_purchase_at"}

\* the dates a publication or an availability can carry
Dates == {Null, Some("2022-01-01"), Some("2022-06-01")}

ProductChannelListing(id, published_at, available_for_purchase_at) ==
    Merge(Opaque(product_channel_listing_fields),
          [id |-> Some(id), channel |-> [slug |-> "default"],
           published_at |-> published_at,
           available_for_purchase_at |-> available_for_purchase_at])

ChannelListingLists ==
    {<<>>}
      \cup {<<ProductChannelListing(1, p, a)>> : p \in Dates, a \in Dates}
      \cup {<<ProductChannelListing(1, Some("2022-01-01"), Null),
              ProductChannelListing(2, Null, Some("2022-06-01"))>>}

Products == {Merge(Product, [channel_listings |-> l]) : l \in ChannelListingLists}

\* a slip: the deprecated availability is read from the publication date
serialize_product_channel_listing_payload_PublishedTwice(channel_listings) ==
    [i \in 1..Len(channel_listings) |->
        SerializeObject("ProductChannelListing", channel_listings[i], "id",
          product_channel_listing_fields,
          [channel_slug |-> channel_listings[i].channel.slug,
           publication_date |-> channel_listings[i].published_at,
           available_for_purchase |-> channel_listings[i].published_at])]

serialize_product_channel_listing_payload(channel_listings) ==
    [i \in 1..Len(channel_listings) |->
        SerializeObject("ProductChannelListing", channel_listings[i], "id",
          product_channel_listing_fields,
          [channel_slug |-> channel_listings[i].channel.slug,
           publication_date |-> channel_listings[i].published_at,
           available_for_purchase |->
               channel_listings[i].available_for_purchase_at])]

\* generate_product_payload(product, requestor): the variants entry hands
\* the product itself, not its variants, to generate_product_variant_payload,
\* whose serializer iterates over its argument
generate_product_payload(product, requestor, time) ==
    Raised("TypeError", product)

\* the primary keys handed to generate_product_deleted_payload
VariantIdLists == {<<>>, <<Some(1)>>, <<Some(1), Some(2)>>}

generate_product_deleted_payload(product, variants_id, requestor, time) ==
    Returned(
      <<SerializeObject("Product", product, "id", PRODUCT_FIELDS,
          [meta |-> Meta(requestor, time),
           variants |->
               [i \in 1..Len(variants_id) |->
                   to_global_id("ProductVariant", variants_id[i])]])>>,
      product)

StockRecord(id, warehouse_id) ==
    [id |-> Some(id), product_variant_id |-> Some(1),
     warehouse_id |-> Some(warehouse_id),
     product_variant |-> [product_id |-> Some(1), product |-> [slug |-> "x"]]]

\* the iterables of stocks handed to the builder
StockLists ==
    {<<>>, <<StockRecord(1, 1)>>, <<StockRecord(1, 1), StockRecord(2, 2)>>}

generate_product_variant_with_stock_payload(stocks, requestor, time) ==
    Returned(
      [i \in 1..Len(stocks) |->
        SerializeObject("Stock", stocks[i], "id", {},
          [product_id |->
               to_global_id("Product", stocks[i].product_variant.product_id),
           product_variant_id |->
               to_global_id("ProductVariant", stocks[i].product_variant_id),
           warehouse_id |-> to_global_id("Warehouse", stocks[i].warehouse_id),
           product_slug |-> stocks[i].product_variant.product.slug,
           meta |-> Meta(requestor, time)])],
      stocks)

(***************************************************************************)
(* Payment, sale, translation and transaction payloads.                    *)
(***************************************************************************)
\* the gateways of the payments: a plugin and a payment app
Gateways == {"mirumee.payments.dummy", "app:1:credit-card"}

\* PaymentData, as far as the payload logic reads it
PaymentData(gateway, amount, currency) ==
    [gateway |-> gateway, amount |-> amount, currency |-> currency,
     payment_id |-> "x", order_id |-> "x", customer_email |-> "x",
     token |-> "x"]

PaymentDatas ==
    {PaymentData(g, a, c) : g \in Gateways, a \in Amounts, c \in Currencies}

\* from_payment_app_id(gateway): the app of the gateway, when it is one
from_payment_app_id(gateway) ==
    IF gateway = "app:1:credit-card"
    THEN Some([app_pk |-> 1, name |-> "credit-card"])
    ELSE Null

\* whether generate_payment_payload attaches payment_method and meta
PaymentHasAppData(payment_app_data) == ~IsNull(payment_app_data)

generate_payment_payload(payment_data, requestor, time) ==
    LET data == [payment_data EXCEPT
                    !.amount = quantize_price(payment_data.amount,
                                              payment_data.currency)]
        payment_app_data == from_payment_app_id(data.gateway)
    IN  Returned(
          <<IF PaymentHasAppData(payment_app_data)
            THEN Merge(data, [payment_method |-> Val(payment_app_data).name,
                              meta |-> Meta(requestor, time)])
            ELSE data>>,
          payment_data)

CatalogueKeys == {"categories", "collections", "products", "variants"}

CatalogueIds == {"a", "b"}

\* the catalogues handed to generate_sale_payload: no catalogue, or a
\* defaultdict(set) holding some of the keys
Catalogues ==
    {Null} \cup
    {Some([k \in d |-> ids]) :
        d \in {{}, {"products"}, CatalogueKeys}, ids \in SUBSET CatalogueIds}

Sales ==
    {[id |-> Some(1), previous_catalogue |-> p, current_catalogue |-> c] :
        p \in Catalogues, c \in Catalogues}

\* defaultdict(set)[key]
CatalogueGet(catalogue, key) ==
    IF key \in DOMAIN catalogue THEN catalogue[key] ELSE {}

\* a defaultdict(set) after each of the keys has been read: the missing ones
\* have been inserted with an empty set
CatalogueAfterReads(catalogue, keys) ==
    [k \in (DOMAIN catalogue) \cup keys |-> CatalogueGet(catalogue, k)]

\* the ids of the list; the order of list(set) is not specified
_calculate_added(previous_catalogue, current_catalogue, key) ==
    CatalogueGet(current_catalogue, key) \ CatalogueGet(previous_catalogue, key)

\* a slip: the catalogues are not swapped
_calculate_removed_NotSwapped(previous_catalogue, current_catalogue, key) ==
    _calculate_added(previous_catalogue, current_catalogue, key)
_calculate_removed(previous_catalogue, current_catalogue, key) ==
    _calculate_added(current_catalogue, previous_catalogue, key)

\* the catalogue argument as the call leaves it
CatalogueArgAfter(catalogue) ==
    IF IsNull(catalogue) THEN Null
    ELSE Some(CatalogueAfterReads(Val(catalogue), CatalogueKeys))

generate_sale_payload(sale, requestor, time) ==
    LET previous == IF IsNull(sale.previous_catalogue) THEN <<>>
                    ELSE Val(sale.previous_catalogue)
        current == IF IsNull(sale.current_catalogue) THEN <<>>
                   ELSE Val(sale.current_catalogue)
    IN  Returned(
          <<SerializeObject("Sale", sale, "id", {"id"},
              [meta |-> Meta(requestor, time),
               categories_added |->
                   _calculate_added(previous, current, "categories"),
               categories_removed |->
                   _calculate_removed(previous, current, "categories"),
               collections_added |->
                   _calculate_added(previous, current, "collections"),
               collections_removed |->
                   _calculate_removed(previous, current, "collections"),
               products_added |->
                   _calculate_added(previous, current, "products"),
               products_removed |->
                   _calculate_removed(previous, current, "products"),
               variants_added |->
                   _calculate_added(previous, current, "variants"),
               variants_removed |->
                   _calculate_removed(previous, current, "variants")])>>,
          [sale EXCEPT
              !.previous_catalogue = CatalogueArgAfter(sale.previous_catalogue),
              !.current_catalogue = CatalogueArgAfter(sale.current_catalogue)])

TranslationContextKeys ==
    {"product_id", "product_variant_id", "attribute_id", "page_id",
     "page_type_id"}

\* the type name of the global id built for a key of the context
ContextTypeName(key) ==
    CASE key = "product_id" -> "Product"
      [] key = "product_variant_id" -> "ProductVariant"
      [] key = "attribute_id" -> "Attribute"
      [] key = "page_id" -> "Page"
      [] OTHER -> "PageType"

\* the translation contexts: a mapping of some of the keys to an optional id
TranslationContexts ==
    {[k \in d |-> Some(3)] : d \in SUBSET TranslationContextKeys}
      \cup {[product_id |-> Null, attribute_id |-> Some(3)],
             [product_id |-> Some(0), page_id |-> Some(3)]}

\* a slip: the key is present, whatever its value
ContextHas_Present(context, key) == key \in DOMAIN context

\* dict.get(key, None) is truthy: the key is present and its value is
\* neither None nor zero
ContextHas(context, key) ==
    /\ key \in DOMAIN context
    /\ ~IsNull(context[key])
    /\ Val(context[key]) # 0

process_translation_context(context) ==
    [key \in TranslationContextKeys |->
        IF ContextHas(context, key)
        THEN Some(to_global_id(ContextTypeName(key), context[key]))
        ELSE Null]

TranslationClasses ==
    {"ProductTranslation", "PageTranslation", "AttributeValueTranslation"}

\* the type of the object a translation translates
TranslatedType(cls) ==
    CASE cls = "ProductTranslation" -> "Product"
      [] cls = "PageTranslation" -> "Page"
      [] OTHER -> "AttributeValue"

Translation(cls, context) ==
    [cls |-> cls, language_code |-> "x", object_id |-> Some(1),
     translated_keys |-> <<[key |-> "name", value |-> "x"]>>,
     context |-> context]

Translations ==
    {Translation(cls, <<>>) :
        cls \in TranslationClasses \ {"AttributeValueTranslation"}}
      \cup {Translation("AttributeValueTranslation", c) :
                c \in TranslationContexts}

\* isinstance(translation, AttributeValueTranslation)
HasTranslationContext(translation) == translation.cls = "AttributeValueTranslation"

generate_translation_payload(translation, requestor, time) ==
    LET object_type == TranslatedType(translation.cls)
        translation_data ==
            [id |-> to_global_id(object_type, translation.object_id),
             language_code |-> translation.language_code,
             type |-> object_type,
             keys |-> translation.translated_keys,
             meta |-> Meta(requestor, time)]
    IN  Returned(
          <<IF HasTranslationContext(translation)
            THEN Merge(translation_data,
                       process_translation_context(translation.context))
            ELSE translation_data>>,
          translation)

\* TransactionActionData: the transaction item, and the optional value of the
\* requested action
TransactionActionData(currency, amount, order_id, checkout_id, action_value) ==
    [transaction |->
        [status |-> "x", type |-> "x", reference |-> "x",
         available_actions |-> <<"refund">>, currency |-> currency,
         charged_value |-> amount, authorized_value |-> amount,
         refunded_value |-> amount, voided_value |-> amount,
         order_id |-> order_id, checkout_id |-> checkout_id,
         created_at |-> "x", modified_at |-> "x"],
     action_type |-> "refund",
     action_value |-> action_value]

TransactionActionDatas ==
    {TransactionActionData(c, a, o, k, v) :
        c \in Currencies, a \in Amounts, o \in {Null, Some(1)},
        k \in {Null, Some(1)},
        v \in {Null, Some(0)} \cup {Some(x) : x \in Amounts}}

\* a slip: only None is false
IsTruthyAmount_NotNone(value) == ~IsNull(value)

\* the truth value of an optional Decimal: None and zero are false
IsTruthyAmount(value) == ~IsNull(value) /\ Val(value) # 0

TransactionValue(transaction, field) ==
    quantize_price(transaction[field], transaction.currency)

generate_transaction_action_request_payload(transaction_data, requestor, time) ==
    LET transaction == transaction_data.transaction
        action_value ==
            IF IsTruthyAmount(transaction_data.action_value)
            THEN Some(quantize_price(Val(transaction_data.action_value),
                                     transaction.currency))
            ELSE Null
        graphql_order_id ==
            IF ~IsNull(transaction.order_id)
            THEN Some(to_global_id("Order", transaction.order_id)) ELSE Null
        graphql_checkout_id ==
            IF ~IsNull(transaction.checkout_id)
            THEN Some(to_global_id("Checkout", transaction.checkout_id))
            ELSE Null
    IN  Returned(
          <<[action |->
                [type |-> transaction_data.action_type,
                 value |-> action_value,
                 currency |-> transaction.currency],
             transaction |->
                [status |-> transaction.status,
                 type |-> transaction.type,
                 reference |-> transaction.reference,
                 available_actions |-> transaction.available_actions,
                 currency |-> transaction.currency,
                 charged_value |-> TransactionValue(transaction, "charged_value"),
                 authorized_value |->
                     TransactionValue(transaction, "authorized_value"),
                 refunded_value |->
                     TransactionValue(transaction, "refunded_value"),
                 voided_value |-> TransactionValue(transaction, "voided_value"),
                 order_id |-> graphql_order_id,
                 checkout_id |-> graphql_checkout_id,
                 created_at |-> transaction.created_at,
                 modified_at |-> transaction.modified_at],
             meta |-> Meta(requestor, time)]>>,
          transaction_data)

(***************************************************************************)
(* Sample payloads.                                                        *)
(***************************************************************************)
\* the values of WebhookEventAsyncType the sample generator tells apart, one
\* it handles like any other value, and a name that is no event at all
CustomerSampleEvents == {"customer_created", "customer_updated"}

CheckoutSampleEvents == {"checkout_updated", "checkout_created"}

PageSampleEvents == {"page_created", "page_deleted", "page_updated"}

OrderSampleEvents ==
    {"order_created", "order_fully_paid", "order_fulfilled", "order_cancelled",
     "order_updated"}

EventNames ==
    CustomerSampleEvents \cup CheckoutSampleEvents \cup PageSampleEvents
      \cup OrderSampleEvents
      \cup {"product_created", "fulfillment_created", "invoice_requested",
            "no_such_event"}

\* the generated personal data that replaces the stored one
FakeEmail == "fake@example.com"

\* anonymize_order: a copy of the order that carries generated personal data
anonymize_order(order) == [order EXCEPT !.user_email = FakeEmail]

\* anonymize_checkout: a copy of the checkout that carries generated
\* personal data
anonymize_checkout(checkout) == [checkout EXCEPT !.email = FakeEmail]

\* generate_fake_user: a generated user that is not stored
generate_fake_user ==
    [Customer(Some(Address("US")), Some(Address("US")), <<>>)
        EXCEPT !.email = FakeEmail]

\* str(uuid.UUID(int=1))
SampleToken == "00000000-0000-0000-0000-000000000001"

\* _get_sample_object(qs): what qs.order_by("?").first() can yield for the
\* query of the event, None when the query matches no row
SampleObjects(event_name) ==
    CASE event_name = "product_created" ->
            {Null} \cup {Some(p) : p \in Products}
      [] event_name \in CheckoutSampleEvents ->
            {Null} \cup {Some(c) : c \in Checkouts}
      [] event_name \in PageSampleEvents -> {Null} \cup {Some(p) : p \in Pages}
      [] event_name = "fulfillment_created" ->
            {Null} \cup {Some(f) : f \in Fulfillments}
      [] event_name \in OrderSampleEvents ->
            {Null} \cup {Some(o) : o \in Orders}
      [] OTHER -> {Null}

\* the sample generator returns None
NoSample == Returned(<<>>, <<>>)

\* _remove_token_from_checkout(checkout): the payload is decoded, the token
\* of its first object is replaced and the payload is encoded again
_remove_token_from_checkout(checkout) ==
    [checkout EXCEPT ![1].token = SampleToken]

\* _generate_sample_order_payload(event_name); order is what the query of
\* the event yields
_generate_sample_order_payload(event_name, order, time) ==
    IF event_name \in OrderSampleEvents /\ ~IsNull(order)
    THEN generate_order_payload(anonymize_order(Val(order)), Null, TRUE, time)
    ELSE NoSample

\* a slip: the order of a sampled fulfillment is used as stored
SampleFulfillment_Raw(fulfillment) == fulfillment

\* the fulfillment after fulfillment.order = anonymize_order(fulfillment.order)
SampleFulfillment(fulfillment) ==
    [fulfillment EXCEPT !.order = anonymize_order(fulfillment.order)]

\* the checkout branch for a checkout that was found
SampleCheckoutPayload(checkout, time) ==
    LET result == generate_checkout_payload(anonymize_checkout(checkout),
                                            Null, time)
    IN  IF result.raised # "none" THEN result
        ELSE [result EXCEPT
                 !.payload = _remove_token_from_checkout(result.payload)]

\* generate_sample_payload(event_name); sample is what the query of the
\* event yields.  A payload is modelled by the document it encodes, so the
\* decoded payload is the document itself; no builder returns an empty
\* string, so None is returned only where payload is None.  The name
\* payload is not bound when no checkout or no page is found.
generate_sample_payload(event_name, sample, time) ==
    CASE event_name \in CustomerSampleEvents ->
            generate_customer_payload(generate_fake_user, Null, time)
      [] event_name = "product_created" ->
            IF IsNull(sample) THEN NoSample
            ELSE generate_product_payload(Val(sample), Null, time)
      [] event_name \in CheckoutSampleEvents ->
            IF IsNull(sample) THEN Raised("UnboundLocalError", <<>>)
            ELSE SampleCheckoutPayload(Val(sample), time)
      [] event_name \in PageSampleEvents ->
            IF IsNull(sample) THEN Raised("UnboundLocalError", <<>>)
            ELSE generate_page_payload(Val(sample), Null, time)
      [] event_name = "fulfillment_created" ->
            IF IsNull(sample) THEN Raised("AttributeError", <<>>)
            ELSE generate_fulfillment_payload(SampleFulfillment(Val(sample)),
                                              Null, time)
      [] OTHER -> _generate_sample_order_payload(event_name, sample, time)
(***************************************************************************)
(* GraphQL resolvers of App and AppExtension (saleor/graphql/app/types.py). *)
(***************************************************************************)
MANAGE_APPS == "MANAGE_APPS"

OWNER == "OWNER"

JWT_THIRDPARTY_ACCESS_TYPE == "thirdparty"

AppIds == {1, 2}

\* an app with its tokens, webhooks and public metadata
App(id, perms) ==
    [cls |-> "App", id |-> id, perms |-> perms,
     tokens |-> <<[name |-> "x", token_last_4 |-> "abcd"]>>,
     webhooks |-> <<[name |-> "x"]>>,
     metadata |-> [k |-> "v"]]

AppExtension(app_id) == [cls |-> "AppExtension", id |-> 1, app_id |-> app_id]

\* the users of a request: nobody, or a staff user with or without the
\* permission; user 1 has the primary key of app 1
ContextUsers ==
    {[cls |-> "AnonymousUser", id |-> 0, perms |-> {}],
     [cls |-> "User", id |-> 1, perms |-> {}],
     [cls |-> "User", id |-> 1, perms |-> {MANAGE_APPS}]}

\* the decoded auth tokens of a request
AuthTokens ==
    {Null, Some([type |-> "access"])}
      \cup {Some([type |-> JWT_THIRDPARTY_ACCESS_TYPE,
                  app |-> to_global_id("App", Some(i))]) : i \in AppIds}

\* info.context
Contexts ==
    [app : {Null} \cup {Some(App(i, p)) : i \in AppIds,
                                          p \in {{}, {MANAGE_APPS}}},
     user : ContextUsers,
     decoded_auth_token : AuthTokens]

\* get_user_or_app_from_context(context): the app when there is one
get_user_or_app_from_context(context) ==
    IF ~IsNull(context.app) THEN Val(context.app) ELSE context.user

has_perm(requester, perm) == perm \in requester.perms

\* equality of model instances: same model and same primary key
SameInstance(a, b) == a.cls = b.cls /\ a.id = b.id

is_owner_or_has_one_of_perms(requester, owner, perms) ==
    SameInstance(requester, owner) \/ \E p \in perms : has_perm(requester, p)

\* outcomes of a resolver
Resolved(data) == [outcome |-> "returned", permissions |-> <<>>, data |-> data]

PermissionDenied(permissions) ==
    [outcome |-> "PermissionDenied", permissions |-> permissions,
     data |-> <<>>]

\* a slip: every app passes as the owner
has_required_permission_AnyApp(app, context) ==
    \/ get_user_or_app_from_context(context).cls = "App"
    \/ has_perm(get_user_or_app_from_context(context), MANAGE_APPS)

\* has_required_permission(app, context), as a predicate: it does not raise
has_required_permission(app, context) ==
    is_owner_or_has_one_of_perms(get_user_or_app_from_context(context), app,
                                 {MANAGE_APPS})

\* a slip: the owner filter is left out of the error
RequiredPermissionDenied_NoOwner == PermissionDenied(<<MANAGE_APPS>>)

\* what has_required_permission raises
RequiredPermissionDenied == PermissionDenied(<<MANAGE_APPS, OWNER>>)

\* int(text)
IntOf(text) == CHOOSE n \in 0..9 : ToString(n) = text

\* from_global_id_or_error(global_id, only_type): the primary key, as text
from_global_id_or_error(global_id, only_type) ==
    CHOOSE text \in {ToString(n) : n \in 0..9} :
        only_type \o ":" \o text = global_id

\* a slip: the auth token is not looked at
ActingAppId_NoToken(context) ==
    IF ~IsNull(context.app) THEN Some(Val(context.app).id) ELSE Null

\* the app on whose behalf the request acts
ActingAppId(context) ==
    LET auth_token == context.decoded_auth_token
    IN  IF ~IsNull(auth_token)
           /\ Val(auth_token).type = JWT_THIRDPARTY_ACCESS_TYPE
        THEN Some(IntOf(from_global_id_or_error(Val(auth_token).app, "App")))
        ELSE IF ~IsNull(context.app) THEN Some(Val(context.app).id) ELSE Null

has_access_to_app_public_meta(root, context) ==
    LET app_id == ActingAppId(context)
    IN  IF ~IsNull(app_id) /\ Val(app_id) = root.id
        THEN TRUE
        ELSE has_perm(get_user_or_app_from_context(context), MANAGE_APPS)

\* what check_permission_for_access_to_meta raises
MetaPermissionDenied == PermissionDenied(<<MANAGE_APPS, OWNER>>)

resolve_tokens(root, context) ==
    IF ~has_required_permission(root, context) THEN RequiredPermissionDenied
    ELSE Resolved(root.tokens)

resolve_webhooks(root, context) ==
    IF ~has_required_permission(root, context) THEN RequiredPermissionDenied
    ELSE Resolved(root.webhooks)

\* the keys a metafield can be asked for
MetaKeys == {"k", "z"}

\* ObjectWithMetadata.resolve_metadata / resolve_metafield / resolve_metafields
MetadataItems(root, keys) ==
    <<[k \in (DOMAIN root.metadata) \cap keys |-> root.metadata[k]]>>

resolve_metadata(root, context) ==
    IF ~has_access_to_app_public_meta(root, context) THEN MetaPermissionDenied
    ELSE Resolved(MetadataItems(root, DOMAIN root.metadata))

resolve_metafield(root, context, key) ==
    IF ~has_access_to_app_public_meta(root, context) THEN MetaPermissionDenied
    ELSE Resolved(MetadataItems(root, {key}))

resolve_metafields(root, context, keys) ==
    IF ~has_access_to_app_public_meta(root, context) THEN MetaPermissionDenied
    ELSE Resolved(MetadataItems(root,
                      IF IsNull(keys) THEN DOMAIN root.metadata ELSE Val(keys)))

\* the app id AppExtension.resolve_app decides to load
ResolveAppId(root, context) ==
    IF ~IsNull(context.app) /\ Val(context.app).id = root.app_id
    THEN Some(root.app_id)
    ELSE IF has_perm(get_user_or_app_from_context(context), MANAGE_APPS)
    THEN Some(root.app_id)
    ELSE Null

\* AppByIdLoader(info.context).load(app_id)
AppByIdLoader(app_id) == App(app_id, {})

resolve_app(root, context) ==
    LET app_id == ResolveAppId(root, context)
    IN  IF IsNull(app_id) THEN PermissionDenied(<<MANAGE_APPS, OWNER>>)
        ELSE Resolved(<<AppByIdLoader(Val(app_id))>>)

(***************************************************************************)
(* The state machine.  A dispatch loads an entity, builds payloads for it  *)
(* and ends; a GraphQL request resolves one field and ends.                *)
(***************************************************************************)
NoGql == [resolver |-> "none"]

Init ==
    /\ phase = "idle"
    /\ kind = "none"
    /\ ent = <<>>
    /\ call = "none"
    /\ req = Null
    /\ args = <<>>
    /\ payload = <<>>
    /\ raised = "none"
    /\ now = 0
    /\ gql = NoGql

\* the framework hands an entity of the given kind to this layer
Load(k, entity) ==
    /\ phase = "idle"
    /\ phase' = "loaded"
    /\ kind' = k
    /\ ent' = entity
    /\ UNCHANGED <<call, req, args, payload, raised, now, gql>>

\* a builder is called on the loaded entity, with a requestor and its other
\* arguments, and returns or raises
Build(k, name, requestor, arguments, result) ==
    /\ phase = "loaded"
    /\ kind = k
    /\ now < MaxTime
    /\ call' = name
    /\ req' = requestor
    /\ args' = arguments
    /\ payload' = result.payload
    /\ raised' = result.raised
    /\ ent' = result.ent
    /\ now' = now + 1
    /\ UNCHANGED <<phase, kind, gql>>

\* the dispatch or request ends; nothing of it is kept
Finish ==
    /\ phase # "idle"
    /\ phase' = "idle"
    /\ kind' = "none"
    /\ ent' = <<>>
    /\ call' = "none"
    /\ req' = Null
    /\ args' = <<>>
    /\ payload' = <<>>
    /\ raised' = "none"
    /\ gql' = NoGql
    /\ now' = 0

\* generate_meta is called on its own
GenerateMeta ==
    \E r \in Requestors, camel_case \in BOOLEAN, kwargs \in Kwargs :
        /\ phase = "idle"
        /\ now < MaxTime
        /\ phase' = "loaded"
        /\ kind' = "meta"
        /\ call' = "generate_meta"
        /\ req' = r
        /\ args' = [camel_case |-> camel_case, kwargs |-> kwargs]
        /\ payload' = <<generate_meta_kwargs(generate_requestor(r), camel_case,
                                             kwargs, now)>>
        /\ raised' = "none"
        /\ now' = now + 1
        /\ UNCHANGED <<ent, gql>>

\* generate_sample_payload is called for an event name, on the database as
\* it happens to be
SamplePayload ==
    \E event_name \in EventNames :
        \E sample \in SampleObjects(event_name) :
            LET result == generate_sample_payload(event_name, sample, now)
            IN  /\ phase = "idle"
                /\ now < MaxTime
                /\ phase' = "loaded"
                /\ kind' = "sample"
                /\ call' = "generate_sample_payload"
                /\ req' = Null
                /\ args' = [event_name |-> event_name, sample |-> sample]
                /\ payload' = result.payload
                /\ raised' = result.raised
                /\ ent' = result.ent
                /\ now' = now + 1
                /\ UNCHANGED gql
LoadOrder == \E o \in Orders : Load("order", o)

OrderPayload ==
    \E r \in Requestors, with_meta \in BOOLEAN :
        Build("order", "generate_order_payload", r,
              [with_meta |-> with_meta],
              generate_order_payload(ent, r, with_meta, now))

LoadCheckout == \E c \in Checkouts : Load("checkout", c)

LoadInvoice == \E i \in Invoices : Load("invoice", i)

LoadFulfillment == \E f \in Fulfillments : Load("fulfillment", f)

ExcludedShippingMethodsForOrderPayload ==
    \E m \in AvailableShippingMethods :
        Build("order", "generate_excluded_shipping_methods_for_order_payload",
              Null, [available_shipping_methods |-> m],
              generate_excluded_shipping_methods_for_order_payload(ent, m, now))

InvoicePayload ==
    \E r \in Requestors :
        Build("invoice", "generate_invoice_payload", r, <<>>,
              generate_invoice_payload(ent, r, now))

CheckoutPayload ==
    \E r \in Requestors :
        Build("checkout", "generate_checkout_payload", r, <<>>,
              generate_checkout_payload(ent, r, now))

\* the gateways are listed for the loaded checkout or for no checkout
ListGatewaysPayload ==
    \E currency \in {Null} \cup {Some(c) : c \in Currencies},
       checkout \in {Null, Some(ent)} :
        LET result == generate_list_gateways_payload(currency, checkout, now)
        IN  Build("checkout", "generate_list_gateways_payload", Null,
                  [currency |-> currency, checkout |-> ~IsNull(checkout)],
                  [result EXCEPT !.ent = IF IsNull(checkout) THEN ent
                                         ELSE Val(result.ent)])

ExcludedShippingMethodsForCheckoutPayload ==
    \E m \in AvailableShippingMethods :
        Build("checkout",
              "generate_excluded_shipping_methods_for_checkout_payload", Null,
              [available_shipping_methods |-> m],
              generate_excluded_shipping_methods_for_checkout_payload(ent, m, now))

FulfillmentPayload ==
    \E r \in Requestors :
        Build("fulfillment", "generate_fulfillment_payload", r, <<>>,
              generate_fulfillment_payload(ent, r, now))

LoadCustomer == \E c \in Customers : Load("customer", c)

LoadCollection == \E c \in Collections : Load("collection", c)

LoadPage == \E p \in Pages : Load("page", p)

LoadProduct == \E p \in Products : Load("product", p)

LoadVariants == \E v \in VariantLists : Load("variants", v)

LoadStocks == \E st \in StockLists : Load("stocks", st)

LoadPaymentData == \E p \in PaymentDatas : Load("payment", p)

LoadSale == \E sale \in Sales : Load("sale", sale)

LoadTranslation == \E t \in Translations : Load("translation", t)

LoadTransaction == \E t \in TransactionActionDatas : Load("transaction", t)

CustomerPayload ==
    \E r \in Requestors :
        Build("customer", "generate_customer_payload", r, <<>>,
              generate_customer_payload(ent, r, now))

CollectionPayload ==
    \E r \in Requestors :
        Build("collection", "generate_collection_payload", r, <<>>,
              generate_collection_payload(ent, r, now))

PagePayload ==
    \E r \in Requestors :
        Build("page", "generate_page_payload", r, <<>>,
              generate_page_payload(ent, r, now))

ProductPayload ==
    \E r \in Requestors :
        Build("product", "generate_product_payload", r, <<>>,
              generate_product_payload(ent, r, now))

\* serialize_product_channel_listing_payload(product.channel_listings.all())
ProductChannelListingPayload ==
    Build("product", "serialize_product_channel_listing_payload", Null, <<>>,
          Returned(serialize_product_channel_listing_payload(
                       ent.channel_listings), ent))

ProductDeletedPayload ==
    \E r \in Requestors, variants_id \in VariantIdLists :
        Build("product", "generate_product_deleted_payload", r,
              [variants_id |-> variants_id],
              generate_product_deleted_payload(ent, variants_id, r, now))

ProductVariantPayload ==
    \E r \in Requestors, with_meta \in BOOLEAN :
        Build("variants", "generate_product_variant_payload", r,
              [with_meta |-> with_meta],
              generate_product_variant_payload(ent, r, with_meta, now))

ProductVariantWithStockPayload ==
    \E r \in Requestors :
        Build("stocks", "generate_product_variant_with_stock_payload", r, <<>>,
              generate_product_variant_with_stock_payload(ent, r, now))

PaymentPayload ==
    \E r \in Requestors :
        Build("payment", "generate_payment_payload", r, <<>>,
              generate_payment_payload(ent, r, now))

SalePayload ==
    \E r \in Requestors :
        Build("sale", "generate_sale_payload", r, <<>>,
              generate_sale_payload(ent, r, now))

TranslationPayload ==
    \E r \in Requestors :
        Build("translation", "generate_translation_payload", r, <<>>,
              generate_translation_payload(ent, r, now))

TransactionActionRequestPayload ==
    \E r \in Requestors :
        Build("transaction", "generate_transaction_action_request_payload", r, <<>>,
              generate_transaction_action_request_payload(ent, r, now))

\* a GraphQL request resolves a field of the root object
Resolve(name, root, context, arguments, result) ==
    /\ phase = "idle"
    /\ phase' = "resolved"
    /\ gql' = [resolver |-> name, root |-> root, context |-> context,
               args |-> arguments, outcome |-> result.outcome,
               permissions |-> result.permissions, data |-> result.data]
    /\ UNCHANGED <<kind, ent, call, req, args, payload, raised, now>>

\* the apps a field is resolved on; their own permissions play no part
RootApps == {App(i, {}) : i \in AppIds}

ResolveTokens ==
    \E root \in RootApps, context \in Contexts :
        Resolve("resolve_tokens", root, context, <<>>,
                resolve_tokens(root, context))

ResolveWebhooks ==
    \E root \in RootApps, context \in Contexts :
        Resolve("resolve_webhooks", root, context, <<>>,
                resolve_webhooks(root, context))

ResolveMetadata ==
    \E root \in RootApps, context \in Contexts :
        Resolve("resolve_metadata", root, context, <<>>,
                resolve_metadata(root, context))

ResolveMetafield ==
    \E root \in RootApps, context \in Contexts, key \in MetaKeys :
        Resolve("resolve_metafield", root, context, <<key>>,
                resolve_metafield(root, context, key))

ResolveMetafields ==
    \E root \in RootApps, context \in Contexts,
       keys \in {Null, Some({"k"})} :
        Resolve("resolve_metafields", root, context, keys,
                resolve_metafields(root, context, keys))

\* a stored token of an app: the token itself is kept next to its last four
\* characters
AppToken(id, name, auth_token, token_last_4) ==
    [cls |-> "AppToken", id |-> id, name |-> name, auth_token |-> auth_token,
     token_last_4 |-> token_last_4]

\* models.AppToken.objects
StoredAppTokens ==
    {AppToken(1, "default", "t0k3n-of-app-one-wxyz", "wxyz"),
     AppToken(2, "ci", "t0k3n-of-app-two-1234", "1234")}

\* the primary keys a token is looked up by
AppTokenPks == {1, 2, 3}

\* AppToken.get_node(info, id): DoesNotExist becomes None
get_node(context, id) ==
    IF \E token \in StoredAppTokens : token.id = id
    THEN Resolved(Some(CHOOSE token \in StoredAppTokens : token.id = id))
    ELSE Resolved(Null)

\* a slip: the stored token is returned
resolve_auth_token_Stored(root, context) == Resolved(root.auth_token)

\* AppToken.resolve_auth_token(root, _info)
resolve_auth_token(root, context) == Resolved(root.token_last_4)

ResolveAuthToken ==
    \E root \in StoredAppTokens, context \in Contexts :
        Resolve("resolve_auth_token", root, context, <<>>,
                resolve_auth_token(root, context))

GetNode ==
    \E id \in AppTokenPks, context \in Contexts :
        Resolve("get_node", AppToken(0, "", "", ""), context, [id |-> id],
                get_node(context, id))

\* models.App.objects
StoredApps == {App(i, {}) : i \in AppIds}

\* resolve_apps(info): every stored app
resolve_apps(context) == StoredApps

\* the federation representations handed to __resolve_references, as the
\* global ids of their apps; no app 3 is stored
RootLists ==
    {<<>>, <<"App:1">>, <<"App:3">>, <<"App:2", "App:1">>, <<"App:1", "App:3">>}

\* resolve_federation_references(graphql_type, roots, queryset): for every
\* root the object of the queryset with the root's primary key, or None
resolve_federation_references(type_name, roots, qs) ==
    [i \in 1..Len(roots) |->
        LET pk == IntOf(from_global_id_or_error(roots[i], type_name))
        IN  IF \E obj \in qs : obj.id = pk
            THEN Some(CHOOSE obj \in qs : obj.id = pk)
            ELSE Null]

\* a slip: a requestor without the permission is refused
__resolve_references_Refusing(roots, context) ==
    IF ~has_perm(get_user_or_app_from_context(context), MANAGE_APPS)
    THEN PermissionDenied(<<MANAGE_APPS>>)
    ELSE Resolved(resolve_federation_references("App", roots,
                                                resolve_apps(context)))

\* App.__resolve_references(roots, info)
__resolve_references(roots, context) ==
    LET requestor == get_user_or_app_from_context(context)
        qs == IF ~has_perm(requestor, MANAGE_APPS) THEN {}
              ELSE resolve_apps(context)
    IN  Resolved(resolve_federation_references("App", roots, qs))

ResolveReferences ==
    \E roots \in RootLists, context \in Contexts :
        Resolve("__resolve_references", App(0, {}), context,
                [roots |-> roots], __resolve_references(roots, context))
ResolveApp ==
    \E app_id \in AppIds, context \in Contexts :
        Resolve("resolve_app", AppExtension(app_id), context, <<>>,
                resolve_app(AppExtension(app_id), context))

Next ==
    \/ ResolveTokens
    \/ ResolveWebhooks
    \/ ResolveMetadata
    \/ ResolveMetafield
    \/ ResolveMetafields
    \/ ResolveApp
    \/ ResolveReferences
    \/ ResolveAuthToken
    \/ GetNode
    \/ GenerateMeta
    \/ SamplePayload
    \/ LoadOrder
    \/ LoadCheckout
    \/ LoadInvoice
    \/ LoadFulfillment
    \/ LoadCustomer
    \/ LoadCollection
    \/ LoadPage
    \/ LoadProduct
    \/ LoadVariants
    \/ LoadStocks
    \/ LoadPaymentData
    \/ LoadSale
    \/ LoadTranslation
    \/ LoadTransaction
    \/ CustomerPayload
    \/ CollectionPayload
    \/ PagePayload
    \/ ProductPayload
    \/ ProductChannelListingPayload
    \/ ProductDeletedPayload
    \/ ProductVariantPayload
    \/ ProductVariantWithStockPayload
    \/ PaymentPayload
    \/ SalePayload
    \/ TranslationPayload
    \/ TransactionActionRequestPayload
    \/ OrderPayload
    \/ ExcludedShippingMethodsForOrderPayload
    \/ InvoicePayload
    \/ CheckoutPayload
    \/ ListGatewaysPayload
    \/ ExcludedShippingMethodsForCheckoutPayload
    \/ FulfillmentPayload
    \/ Finish

Spec == Init /\ [][Next]_vars

(***************************************************************************)
(* Properties of the resolvers.                                            *)
(***************************************************************************)
GuardedResolvers ==
    {"resolve_tokens", "resolve_webhooks", "resolve_metadata",
     "resolve_metafield", "resolve_metafields", "resolve_app"}

MetaResolvers == {"resolve_metadata", "resolve_metafield", "resolve_metafields"}

\* the requester of the resolved request: the app of the context when there
\* is one, the user otherwise
GqlRequester ==
    IF gql.context.app # Null THEN gql.context.app[1] ELSE gql.context.user

GqlManagesApps == MANAGE_APPS \in GqlRequester.perms

\* C4: whenever one of the guarded resolvers refuses a requester, it raises
\* PermissionDenied with the permissions [MANAGE_APPS, OWNER], in this
\* order, and returns no data of the app
C4_RefusalNamesPermissions ==
    (gql.resolver \in GuardedResolvers /\ gql.outcome # "returned")
        => /\ gql.outcome = "PermissionDenied"
           /\ gql.permissions = <<"MANAGE_APPS", "OWNER">>
           /\ gql.data = <<>>

\* C4 witness: the tokens of app 1 are refused to app 2, which holds no
\* permission
C4_Witness ==
    /\ gql.resolver = "resolve_tokens"
    /\ gql.outcome = "PermissionDenied"
    /\ gql.root.id = 1
    /\ gql.context.app # Null
    /\ gql.context.app[1].id = 2
    /\ gql.context.app[1].perms = {}

\* C5: tokens and webhooks are returned exactly when the requester is the
\* app itself or holds MANAGE_APPS, and the app of an extension is loaded
\* exactly when the app of the context is the extension's app or the
\* requester holds MANAGE_APPS; otherwise nothing is returned
C5_OwnerOrManageApps ==
    /\ gql.resolver \in {"resolve_tokens", "resolve_webhooks"}
        => /\ gql.outcome = "returned"
                <=> \/ /\ gql.context.app # Null
                       /\ gql.context.app[1].id = gql.root.id
                    \/ GqlManagesApps
           /\ gql.outcome = "returned"
                => gql.data = IF gql.resolver = "resolve_tokens"
                              THEN gql.root.tokens ELSE gql.root.webhooks
           /\ gql.outcome # "returned" => gql.data = <<>>
    /\ gql.resolver = "resolve_app"
        => /\ gql.outcome = "returned"
                <=> \/ /\ gql.context.app # Null
                       /\ gql.context.app[1].id = gql.root.app_id
                    \/ GqlManagesApps
           /\ gql.outcome = "returned"
                => Len(gql.data) = 1 /\ gql.data[1].id = gql.root.app_id
           /\ gql.outcome # "returned" => gql.data = <<>>

\* C5 witness: the webhooks of app 1 are returned to app 1 itself, which
\* holds no permission, in a request whose user has the primary key 1 too
C5_Witness ==
    /\ gql.resolver = "resolve_webhooks"
    /\ gql.outcome = "returned"
    /\ gql.root.id = 1
    /\ gql.context.app # Null
    /\ gql.context.app[1].id = 1
    /\ gql.context.app[1].perms = {}
    /\ gql.data = gql.root.webhooks

\* the acting app of the resolved request equals the root app: the app named
\* in a third-party token, and otherwise the app of the context
GqlActsAsRoot ==
    IF /\ gql.context.decoded_auth_token # Null
       /\ gql.context.decoded_auth_token[1].type = "thirdparty"
    THEN gql.context.decoded_auth_token[1].app
            = "App:" \o ToString(gql.root.id)
    ELSE gql.context.app # Null /\ gql.context.app[1].id = gql.root.id

\* C6: the public metadata of an app is accessible, and returned by
\* resolve_metadata, resolve_metafield and resolve_metafields, exactly when
\* the acting app is the app itself or the requester holds MANAGE_APPS
C6_PublicMetaAccess ==
    gql.resolver \in MetaResolvers
        => /\ gql.outcome = "returned" <=> (GqlActsAsRoot \/ GqlManagesApps)
           /\ gql.outcome # "returned" => gql.data = <<>>

\* C6 witness: a third-party token of app 1 reads the metadata of app 1 in
\* a request whose context holds app 2 without permissions
C6_Witness ==
    /\ gql.resolver = "resolve_metadata"
    /\ gql.outcome = "returned"
    /\ gql.root.id = 1
    /\ gql.context.decoded_auth_token # Null
    /\ gql.context.decoded_auth_token[1].type = "thirdparty"
    /\ gql.context.decoded_auth_token[1].app = "App:1"
    /\ gql.context.app # Null
    /\ gql.context.app[1].id = 2
    /\ gql.context.app[1].perms = {}
    /\ gql.data = <<[k |-> "v"]>>

(***************************************************************************)
(* Properties of the payload builders.                                     *)
(***************************************************************************)
\* a builder has been called and has returned its payload
Returns ==
    /\ call \notin {"none", "generate_meta", "generate_sample_payload",
                    "serialize_product_channel_listing_payload"}
    /\ raised = "none"

\* the key that holds the meta envelope of the objects of the payload
EnvelopeKey == IF call = "generate_page_payload" THEN "data" ELSE "meta"

\* the meta envelopes issued with the payload
Envelopes ==
    {payload[i][EnvelopeKey] :
        i \in {j \in 1..Len(payload) : EnvelopeKey \in DOMAIN payload[j]}}

MetaKeySet == {"issued_at", "version", "issuing_principal"}

\* the caller did not ask for a payload without meta
MetaRequested ==
    call \in {"generate_order_payload", "generate_product_variant_payload"}
        => args.with_meta

\* C1: every object of every returned payload has a top-level key meta
\* whose value contains issued_at, version and issuing_principal
C1_EveryPayloadCarriesMeta ==
    (Returns /\ MetaRequested)
        => \A i \in 1..Len(payload) :
              /\ "meta" \in DOMAIN payload[i]
              /\ MetaKeySet \subseteq DOMAIN payload[i]["meta"]

\* C7: generate_requestor yields the null marker for no requestor, the
\* global id of the user and the type user for a user (anonymous or not),
\* the name and the type app for any other requestor; id is null exactly
\* when type is null
C7_RequestorIdentity ==
    \A e \in Envelopes :
        LET principal == e.issuing_principal
        IN  /\ req = Null => principal = [id |-> Null, type |-> Null]
            /\ (req # Null /\ req[1].cls \in {"User", "AnonymousUser"})
                 => principal = [id |-> <<"User:" \o Str(req[1].id)>>,
                                 type |-> <<"user">>]
            /\ (req # Null /\ req[1].cls \notin {"User", "AnonymousUser"})
                 => principal = [id |-> <<req[1].name>>, type |-> <<"app">>]
            /\ (principal.id = Null) <=> (principal.type = Null)

\* C7 witness: a customer payload issued for the app named shop-app
C7_Witness ==
    /\ call = "generate_customer_payload"
    /\ raised = "none"
    /\ req = Some(AppRequestor)
    /\ payload[1].meta.issuing_principal
         = [id |-> <<"shop-app">>, type |-> <<"app">>]

\* C8: the issuing principal of a payload built for an anonymous requestor
\* is the null marker
C8_AnonymousIsNullMarker ==
    (req # Null /\ req[1].cls = "AnonymousUser")
        => \A e \in Envelopes :
              e.issuing_principal = [id |-> Null, type |-> Null]

\* every named amount of the object lies on the grid of the currency
QuantizedFields(obj, fields, currency) ==
    \A f \in fields : IsQuantized(obj[f], currency)

\* the amounts of an order object of a payload, each in its own currency:
\* the order's prices in the order's currency, a line's prices in the line's
\* currency, the refunds and discounts in the order's currency, a payment's
\* amounts in the payment's currency, the price of the shipping method in
\* the currency of its listing
OrderObjectQuantized(o, currency) ==
    /\ QuantizedFields(o, ORDER_PRICE_FIELDS, currency)
    /\ \A i \in 1..Len(o.lines) :
          QuantizedFields(o.lines[i], line_price_fields, o.lines[i].currency)
    /\ \A i \in 1..Len(o.fulfillments) :
          QuantizedFields(o.fulfillments[i], fulfillment_price_fields, currency)
    /\ \A i \in 1..Len(o.payments) :
          QuantizedFields(o.payments[i], payment_price_fields,
                          o.payments[i].currency)
    /\ o.discounts # Null
          => \A i \in 1..Len(o.discounts[1]) :
                QuantizedFields(o.discounts[1][i], discount_price_fields,
                                currency)
    /\ o.shipping_method # Null
          => IsQuantized(o.shipping_method[1].price_amount,
                         o.shipping_method[1].currency)

CheckoutObjectQuantized(c) ==
    /\ IsQuantized(c.discount_amount, c.currency)
    /\ c.shipping_method # Null
          => IsQuantized(c.shipping_method[1].price_amount,
                         c.shipping_method[1].currency)

ShippingMethodsQuantized(methods) ==
    \A i \in 1..Len(methods) : IsQuantized(methods[i].price, methods[i].currency)

\* C2: every monetary amount of a returned payload is quantized to the
\* minor-unit precision of its currency
C2_AmountsAreQuantized ==
    Returns =>
      /\ call = "generate_order_payload"
            => OrderObjectQuantized(payload[1], ent.currency)
      /\ call = "generate_excluded_shipping_methods_for_order_payload"
            => /\ OrderObjectQuantized(payload[1].order, ent.currency)
               /\ ShippingMethodsQuantized(payload[1].shipping_methods)
      /\ call = "generate_invoice_payload"
            => QuantizedFields(payload[1].order, ORDER_PRICE_FIELDS,
                               ent.order[1].currency)
      /\ call = "generate_fulfillment_payload"
            => /\ QuantizedFields(payload[1], fulfillment_price_fields,
                                  ent.order.currency)
               /\ OrderObjectQuantized(payload[1].order, ent.order.currency)
      /\ call = "generate_checkout_payload"
            => CheckoutObjectQuantized(payload[1])
      /\ (call = "generate_list_gateways_payload" /\ payload[1].checkout # Null)
            => CheckoutObjectQuantized(payload[1].checkout[1])
      /\ call = "generate_excluded_shipping_methods_for_checkout_payload"
            => /\ CheckoutObjectQuantized(payload[1].checkout)
               /\ ShippingMethodsQuantized(payload[1].shipping_methods)
      /\ call = "generate_product_variant_payload"
            => \A i \in 1..Len(payload) :
                  \A j \in 1..Len(payload[i].channel_listings) :
                      QuantizedFields(payload[i].channel_listings[j],
                                      {"price_amount", "cost_price_amount"},
                                      payload[i].channel_listings[j].currency)
      /\ call = "generate_payment_payload"
            => IsQuantized(payload[1].amount, payload[1].currency)
      /\ call = "generate_transaction_action_request_payload"
            => /\ QuantizedFields(payload[1].transaction,
                     {"charged_value", "authorized_value", "refunded_value",
                      "voided_value"},
                     payload[1].transaction.currency)
               /\ payload[1].action.value # Null
                     => IsQuantized(payload[1].action.value[1],
                                    payload[1].action.currency)

\* the shipping method of the entity has no listing in the entity's channel
NoListingInChannel(e) ==
    /\ e.shipping_method # Null
    /\ \A i \in 1..Len(e.shipping_method[1].channel_listings) :
          e.shipping_method[1].channel_listings[i].channel_id # e.channel[1].id

\* the fields of an order or checkout object whose relation is missing
MissingAreNull(e, o) ==
    /\ (e.shipping_method = Null \/ NoListingInChannel(e))
          => o.shipping_method = Null
    /\ e.collection_point = Null => o.collection_point = Null
    /\ e.shipping_address = Null => o.shipping_address = Null

\* C3: a builder called on an entity whose optional related entity is
\* missing returns a payload with the corresponding field null; it does not
\* raise
C3_MissingRelationsDegradeToNull ==
    /\ call \in {"generate_order_payload", "generate_checkout_payload"}
          => raised = "none" /\ MissingAreNull(ent, payload[1])
    /\ call = "generate_excluded_shipping_methods_for_order_payload"
          => raised = "none" /\ MissingAreNull(ent, payload[1].order)
    /\ call = "generate_excluded_shipping_methods_for_checkout_payload"
          => raised = "none" /\ MissingAreNull(ent, payload[1].checkout)
    /\ (call = "generate_list_gateways_payload" /\ args.checkout)
          => raised = "none" /\ MissingAreNull(ent, payload[1].checkout[1])
    /\ (/\ call = "generate_checkout_payload"
        /\ (ent.shipping_address = Null \/ ent.warehouse_for_country = Null))
          => (raised = "none" /\ payload[1].warehouse_address = Null)
    /\ call = "generate_fulfillment_payload"
          => /\ raised = "none"
             /\ MissingAreNull(ent.order, payload[1].order)
             /\ ((Len(ent.lines) = 0 \/ ent.lines[1].stock = Null)
                    /\ ent.warehouse_for_country = Null)
                  => payload[1].warehouse_address = Null
             /\ \A i \in 1..Len(ent.lines) :
                   /\ ent.lines[i].stock = Null
                        => payload[1].lines[i].warehouse_id = Null
                   /\ ent.lines[i].order_line.variant = Null
                        => /\ payload[1].lines[i].weight = Null
                           /\ payload[1].lines[i].product_type = Null

\* a step in which a builder is called and returns its payload
BuilderReturns == phase = "loaded" /\ now' = now + 1 /\ raised' = "none"

\* C9: building a payload only reads: when a builder returns, every
\* attribute of the entity and of its related entities, and the catalogue
\* mappings, have the value they had before the call
C9_BuildingOnlyReads == [][BuilderReturns => ent' = ent]_vars

Distance(a, b) == IF a >= b THEN a - b ELSE b - a

\* w is the value of v quantized in the currency: a nearest amount of the grid
IsQuantizedValueOf(w, v, currency) ==
    IsQuantized(w, currency) /\ 2 * Distance(w, v) <= Quantum(currency)

\* the object keeps its attributes, but for the price fields, which hold
\* their quantized values
QuantizedInPlace(old, new, fields, currency) ==
    /\ DOMAIN new = DOMAIN old
    /\ \A f \in DOMAIN old :
          IF f \in fields THEN IsQuantizedValueOf(new[f], old[f], currency)
          ELSE new[f] = old[f]

\* the related objects are kept, or each is quantized in place
KeptOrQuantizedInPlace(old, new, fields, currency) ==
    \/ new = old
    \/ /\ Len(new) = Len(old)
       /\ \A i \in 1..Len(old) :
             QuantizedInPlace(old[i], new[i], fields,
                              IF currency = "own" THEN old[i].currency
                              ELSE currency)

OrderRelations == {"lines", "fulfillments", "payments", "discounts"}

OrderQuantizedInPlace(old, new) ==
    /\ DOMAIN new = DOMAIN old
    /\ \A f \in (DOMAIN old) \ OrderRelations :
          IF f \in ORDER_PRICE_FIELDS
          THEN IsQuantizedValueOf(new[f], old[f], old.currency)
          ELSE new[f] = old[f]
    /\ KeptOrQuantizedInPlace(old.lines, new.lines, line_price_fields, "own")
    /\ KeptOrQuantizedInPlace(old.fulfillments, new.fulfillments,
                              fulfillment_price_fields, old.currency)
    /\ KeptOrQuantizedInPlace(old.payments, new.payments,
                              payment_price_fields, old.currency)
    /\ KeptOrQuantizedInPlace(old.discounts, new.discounts,
                              discount_price_fields, old.currency)

\* the ids under every key are kept; a key that was missing holds no id
CatalogueKept(old, new) ==
    \/ old = Null /\ new = Null
    \/ /\ old # Null /\ new # Null
       /\ DOMAIN old[1] \subseteq DOMAIN new[1]
       /\ \A k \in DOMAIN new[1] :
             new[1][k] = IF k \in DOMAIN old[1] THEN old[1][k] ELSE {}

\* what a builder that returns leaves of the entity it was called on
EntityKept ==
    CASE kind = "order" -> OrderQuantizedInPlace(ent, ent')
      [] kind = "invoice" ->
            /\ DOMAIN ent' = DOMAIN ent
            /\ \A f \in (DOMAIN ent) \ {"order"} : ent'[f] = ent[f]
            /\ Len(ent'.order) = 1
            /\ QuantizedInPlace(ent.order[1], ent'.order[1],
                                ORDER_PRICE_FIELDS, ent.order[1].currency)
      [] kind = "fulfillment" ->
            /\ DOMAIN ent' = DOMAIN ent
            /\ \A f \in (DOMAIN ent) \ {"order"} :
                  IF f \in fulfillment_price_fields
                  THEN IsQuantizedValueOf(ent'[f], ent[f], ent.order.currency)
                  ELSE ent'[f] = ent[f]
            /\ OrderQuantizedInPlace(ent.order, ent'.order)
      [] kind = "checkout" ->
            IF call' = "generate_list_gateways_payload" /\ ~args'.checkout
            THEN ent' = ent
            ELSE QuantizedInPlace(ent, ent', checkout_price_fields,
                                  ent.currency)
      [] kind = "sale" ->
            /\ ent'.id = ent.id
            /\ CatalogueKept(ent.previous_catalogue, ent'.previous_catalogue)
            /\ CatalogueKept(ent.current_catalogue, ent'.current_catalogue)
      [] OTHER -> ent' = ent

\* C9, amended: when a builder returns, the entity and its related entities
\* keep every attribute but their price fields, which hold their quantized
\* values, and the catalogues keep their ids under every key
C9_OnlyPricesAreQuantizedInPlace == [][BuilderReturns => EntityKept]_vars

\* C9 witness: an order payload has been built for an order whose total was
\* not quantized, and the order in memory holds the quantized total
C9_Witness ==
    /\ call = "generate_order_payload"
    /\ raised = "none"
    /\ ent.currency = "USD"
    /\ ent.total_net_amount = 1230
    /\ payload[1].total_net_amount = 1230

\* the entities a builder of the kind can be called on
InputsOf(k) ==
    CASE k = "order" -> Orders
      [] k = "invoice" -> Invoices
      [] k = "checkout" -> Checkouts
      [] k = "fulfillment" -> Fulfillments
      [] k = "customer" -> Customers
      [] k = "collection" -> Collections
      [] k = "page" -> Pages
      [] k = "product" -> Products
      [] k = "variants" -> VariantLists
      [] k = "stocks" -> StockLists
      [] k = "payment" -> PaymentDatas
      [] k = "sale" -> Sales
      [] k = "translation" -> Translations
      [] OTHER -> TransactionActionDatas

\* the result of the named builder on an entity, for a requestor and the
\* other arguments of the call
ResultOf(name, e, r, a, t) ==
    CASE name = "generate_order_payload" ->
            generate_order_payload(e, r, a.with_meta, t)
      [] name = "generate_excluded_shipping_methods_for_order_payload" ->
            generate_excluded_shipping_methods_for_order_payload(
                e, a.available_shipping_methods, t)
      [] name = "generate_invoice_payload" -> generate_invoice_payload(e, r, t)
      [] name = "generate_checkout_payload" -> generate_checkout_payload(e, r, t)
      [] name = "generate_list_gateways_payload" ->
            generate_list_gateways_payload(
                a.currency, IF a.checkout THEN Some(e) ELSE Null, t)
      [] name = "generate_excluded_shipping_methods_for_checkout_payload" ->
            generate_excluded_shipping_methods_for_checkout_payload(
                e, a.available_shipping_methods, t)
      [] name = "generate_fulfillment_payload" ->
            generate_fulfillment_payload(e, r, t)
      [] name = "generate_customer_payload" -> generate_customer_payload(e, r, t)
      [] name = "generate_collection_payload" ->
            generate_collection_payload(e, r, t)
      [] name = "generate_page_payload" -> generate_page_payload(e, r, t)
      [] name = "generate_product_payload" -> generate_product_payload(e, r, t)
      [] name = "serialize_product_channel_listing_payload" ->
            Returned(serialize_product_channel_listing_payload(
                         e.channel_listings), e)
      [] name = "generate_product_deleted_payload" ->
            generate_product_deleted_payload(e, a.variants_id, r, t)
      [] name = "generate_product_variant_payload" ->
            generate_product_variant_payload(e, r, a.with_meta, t)
      [] name = "generate_product_variant_with_stock_payload" ->
            generate_product_variant_with_stock_payload(e, r, t)
      [] name = "generate_payment_payload" -> generate_payment_payload(e, r, t)
      [] name = "generate_sale_payload" -> generate_sale_payload(e, r, t)
      [] name = "generate_translation_payload" ->
            generate_translation_payload(e, r, t)
      [] OTHER -> generate_transaction_action_request_payload(e, r, t)

\* the key sets of the objects of a payload
KeySets(objects) == {DOMAIN objects[i] : i \in 1..Len(objects)}

\* C10: the top-level keys of a payload are fixed for its builder: the
\* payload just returned has the keys of the payload the same builder
\* returns, with the same arguments, for any other entity and requestor
C10_FixedKeySet ==
    Returns =>
        \A e \in InputsOf(kind), r \in Requestors :
            LET other == ResultOf(call, e, r, args, now)
            IN  other.raised = "none"
                  => \A k1 \in KeySets(payload), k2 \in KeySets(other.payload) :
                        k1 = k2

(***************************************************************************)
(* Deprecated aliases.                                                     *)
(***************************************************************************)
\* C11: deprecated fields are aliases of their replacements: a page payload
\* has publication_date equal to published_at, the page's own date, and
\* every object of a product channel-listing payload has publication_date
\* equal to published_at and available_for_purchase equal to
\* available_for_purchase_at, the listing's own dates
C11_DeprecatedAliases ==
    /\ (call = "generate_page_payload" /\ raised = "none") =>
          /\ payload[1].publication_date = payload[1].published_at
          /\ payload[1].published_at = ent.published_at
    /\ (call = "serialize_product_channel_listing_payload" /\ raised = "none") =>
          /\ Len(payload) = Len(ent.channel_listings)
          /\ \A i \in 1..Len(payload) :
                /\ payload[i].publication_date = payload[i].published_at
                /\ payload[i].published_at = ent.channel_listings[i].published_at
                /\ payload[i].available_for_purchase
                     = payload[i].available_for_purchase_at
                /\ payload[i].available_for_purchase_at
                     = ent.channel_listings[i].available_for_purchase_at

\* a listing payload whose two dates differ has been serialized
C11_Witness ==
    /\ call = "serialize_product_channel_listing_payload"
    /\ raised = "none"
    /\ Len(payload) = 2
    /\ payload[1].published_at # payload[1].available_for_purchase_at
    /\ payload[1].available_for_purchase = Null
    /\ payload[2].publication_date = Null

(***************************************************************************)
(* The meta envelope builder.                                              *)
(***************************************************************************)
\* generate_meta has been called on its own
MetaCalled == call = "generate_meta"

\* the names of the keyword arguments of the call
KwargNamesOf(kwargs) == {kwargs[i][1] : i \in 1..Len(kwargs)}

\* the value of the keyword argument of the given name
KwargOf(kwargs, name) ==
    kwargs[CHOOSE i \in 1..Len(kwargs) : kwargs[i][1] = name][2]

\* the value the call gives to a snake_case key: the keyword argument of
\* that name when there is one, the built-in value otherwise
ExpectedMetaValue(key) ==
    IF key \in KwargNamesOf(args.kwargs) THEN KwargOf(args.kwargs, key)
    ELSE CASE key = "issued_at" -> now - 1
           [] key = "version" -> "3.5"
           [] OTHER -> generate_requestor(req)

\* the keys the call gives a value to
ExpectedMetaKeys == MetaKeySet \cup KwargNamesOf(args.kwargs)

\* the camel-cased form of a key
CamelCased(key) ==
    CASE key = "issued_at" -> "issuedAt"
      [] key = "issuing_principal" -> "issuingPrincipal"
      [] key = "trace_id" -> "traceId"
      [] OTHER -> key

Shadowed ==
    {k \in MetaKeySet :
        /\ CamelCased(k) # k
        /\ CamelCased(k) \in KwargNamesOf(args.kwargs)}

C14_OriginalIsNullWithoutOriginal ==
    (call = "generate_order_payload" /\ raised = "none") =>
        payload[1].original =
            IF ent.original_id = Null THEN Null
            ELSE <<"Order:" \o ToString(ent.original_id[1])>>

\* the top-level keys of a checkout payload
CheckoutPayloadKeys ==
    {"token", "type", "last_change", "status", "email", "quantity",
     "currency", "discount_amount", "discount_name", "language_code",
     "private_metadata", "metadata", "channel", "user", "billing_address",
     "shipping_address", "warehouse_address", "shipping_method", "lines",
     "collection_point", "meta", "created"}

\* the checkout payload has been produced, with all its fields
CheckoutPayloadProduced ==
    /\ raised = "none"
    /\ Len(payload) = 1
    /\ DOMAIN payload[1] = CheckoutPayloadKeys

\* C15: the checkout payload is produced, with all its fields, when the
\* checkout has no shipping address or no warehouse serves its country, when
\* it has no collection point and when it has no shipping method, and then
\* warehouse_address, collection_point and shipping_method are null
C15_CheckoutDegradesToNull ==
    call = "generate_checkout_payload" =>
        /\ (ent.shipping_address = Null \/ ent.warehouse_for_country = Null)
              => /\ CheckoutPayloadProduced
                 /\ payload[1].warehouse_address = Null
        /\ ent.collection_point = Null
              => /\ CheckoutPayloadProduced
                 /\ payload[1].collection_point = Null
        /\ ent.shipping_method = Null
              => /\ CheckoutPayloadProduced
                 /\ payload[1].shipping_method = Null

\* the warehouse a fulfillment is shipped from: that of the stock of its
\* first line, and without such a stock the first one serving the order's
\* country
ShippedFrom ==
    IF Len(ent.lines) > 0 /\ ent.lines[1].stock # Null
    THEN <<ent.lines[1].stock[1].warehouse>>
    ELSE ent.warehouse_for_country

\* C16: a fulfillment payload reports the address of the warehouse of the
\* stock of the first line, or without such a stock that of the first
\* warehouse serving the order's country; when there is neither, the payload
\* is produced with warehouse_address null
C16_FulfillmentWarehouseAddress ==
    call = "generate_fulfillment_payload" =>
        /\ (raised = "none" /\ ShippedFrom # Null) =>
              /\ payload[1].warehouse_address # Null
              /\ payload[1].warehouse_address[1].country
                   = ShippedFrom[1].address[1].country
        /\ ShippedFrom = Null =>
              /\ raised = "none"
              /\ payload[1].warehouse_address = Null

\* the fields of the serialized object are those of the object in memory,
\* quantized to the currency
SerializedQuantized(serialized, obj, fields, currency) ==
    \A f \in fields : serialized[f] = quantize_price(obj[f], currency)

\* C17: in a returned order payload the monetary fields of every nested
\* payment are quantized to the payment's currency, and those of every
\* nested fulfillment and discount to the order's currency
C17_NestedAmountsInOwnCurrency ==
    [][(BuilderReturns /\ call' = "generate_order_payload") =>
          /\ \A i \in 1..Len(ent.payments) :
                SerializedQuantized(payload'[1].payments[i], ent.payments[i],
                                    payment_price_fields,
                                    ent.payments[i].currency)
          /\ \A i \in 1..Len(ent.fulfillments) :
                SerializedQuantized(payload'[1].fulfillments[i],
                                    ent.fulfillments[i],
                                    fulfillment_price_fields, ent.currency)
          /\ \A i \in 1..Len(ent.discounts) :
                SerializedQuantized(payload'[1].discounts[1][i],
                                    ent.discounts[i],
                                    discount_price_fields, ent.currency)]_vars

(***************************************************************************)
(* Nested payloads.                                                        *)
(***************************************************************************)
\* the meta envelope of a fulfillment payload is at its top level only
FulfillmentMetaAtTopLevel ==
    (call = "generate_fulfillment_payload" /\ raised = "none") =>
        /\ "meta" \in DOMAIN payload[1]
        /\ "meta" \notin DOMAIN payload[1].order

\* order and variant payloads carry a meta envelope exactly when they are
\* built with with_meta
MetaFollowsWithMeta ==
    (/\ call \in {"generate_order_payload", "generate_product_variant_payload"}
     /\ raised = "none") =>
        \A i \in 1..Len(payload) : ("meta" \in DOMAIN payload[i]) <=> args.with_meta

\* C18: a payload has one meta envelope, at its top level: a fulfillment
\* payload has one and its nested order has none, a product payload has one
\* and its nested variants have none, and order and variant payloads built
\* with with_meta have one
C18_OneMetaAtTopLevel ==
    /\ FulfillmentMetaAtTopLevel
    /\ MetaFollowsWithMeta
    /\ call = "generate_product_payload" =>
          /\ raised = "none"
          /\ "meta" \in DOMAIN payload[1]
          /\ \A i \in 1..Len(payload[1].variants) :
                "meta" \notin DOMAIN payload[1].variants[i]

(***************************************************************************)
(* The transaction-action-request payload.                                 *)
(***************************************************************************)
\* the four amounts of a transaction
TransactionValueFields ==
    {"charged_value", "authorized_value", "refunded_value", "voided_value"}

\* C19: a transaction-action-request payload is always produced; its
\* action.value is null when the requested value is None or zero and is the
\* requested value quantized to the transaction's currency otherwise; the
\* four amounts of the transaction are quantized to its currency; order_id
\* and checkout_id are null without order and checkout, and their global
\* ids otherwise
C19_TransactionActionRequest ==
    call = "generate_transaction_action_request_payload" =>
        LET transaction == ent.transaction
            currency == transaction.currency
            requested == ent.action_value
        IN  /\ raised = "none"
            /\ IF requested = Null \/ requested[1] = 0
               THEN payload[1].action.value = Null
               ELSE /\ payload[1].action.value # Null
                    /\ IsQuantizedValueOf(payload[1].action.value[1],
                                          requested[1], currency)
            /\ \A f \in TransactionValueFields :
                  IsQuantizedValueOf(payload[1].transaction[f], transaction[f],
                                     currency)
            /\ payload[1].transaction.order_id =
                  IF transaction.order_id = Null THEN Null
                  ELSE <<"Order:" \o ToString(transaction.order_id[1])>>
            /\ payload[1].transaction.checkout_id =
                  IF transaction.checkout_id = Null THEN Null
                  ELSE <<"Checkout:" \o ToString(transaction.checkout_id[1])>>

\* C19 witness: a request for zero on a transaction in yen of a checkout,
\* whose amounts of 1.234 are reported as 1
C19_Witness ==
    /\ call = "generate_transaction_action_request_payload"
    /\ ent.action_value = <<0>>
    /\ payload[1].action.value = Null
    /\ ent.transaction.currency = "JPY"
    /\ ent.transaction.charged_value = 1234
    /\ payload[1].transaction.charged_value = 1000
    /\ payload[1].transaction.order_id = Null
    /\ payload[1].transaction.checkout_id = <<"Checkout:1">>

(***************************************************************************)
(* The translation payload.                                                *)
(***************************************************************************)
\* the keys every translation payload has
TranslationPayloadKeys == {"id", "language_code", "type", "keys", "meta"}

\* the type of the global id of each key of a translation context
ContextIdType ==
    [product_id |-> "Product", product_variant_id |-> "ProductVariant",
     attribute_id |-> "Attribute", page_id |-> "Page",
     page_type_id |-> "PageType"]

\* the value of a context key in the payload: the global id when the context
\* has a truthy id for the key, null otherwise
ContextIdOf(context, key) ==
    IF key \in DOMAIN context /\ context[key] # Null /\ context[key] # <<0>>
    THEN <<ContextIdType[key] \o ":" \o ToString(context[key][1])>>
    ELSE Null

\* C20: a translation payload has, next to id, language_code, type, keys
\* and meta, which do not depend on the context, the five context keys if
\* and only if the translation is an AttributeValueTranslation; each of the
\* five is the global id of its type when the context has a truthy id for
\* it, and null otherwise
C20_TranslationContext ==
    call = "generate_translation_payload" =>
        /\ raised = "none"
        /\ DOMAIN payload[1] =
              IF ent.cls = "AttributeValueTranslation"
              THEN TranslationPayloadKeys \cup DOMAIN ContextIdType
              ELSE TranslationPayloadKeys
        /\ ent.cls = "AttributeValueTranslation" =>
              \A key \in DOMAIN ContextIdType :
                  payload[1][key] = ContextIdOf(ent.context, key)
        /\ payload[1].type \in {"Product", "Page", "AttributeValue"}
        /\ payload[1].id = payload[1].type \o ":" \o ToString(ent.object_id[1])
        /\ payload[1].language_code = ent.language_code
        /\ payload[1].keys = ent.translated_keys
        /\ payload[1].meta =
              [issued_at |-> now - 1, version |-> "3.5",
               issuing_principal |-> generate_requestor(req)]

\* C20 witness: the payload of an attribute value translation whose context
\* has a page, a product id of zero and no attribute
C20_Witness ==
    /\ call = "generate_translation_payload"
    /\ ent.cls = "AttributeValueTranslation"
    /\ DOMAIN ent.context = {"product_id", "page_id"}
    /\ ent.context.product_id = <<0>>
    /\ payload[1].page_id = <<"Page:3">>
    /\ payload[1].product_id = Null
    /\ payload[1].attribute_id = Null

(***************************************************************************)
(* Sample payloads.                                                        *)
(***************************************************************************)
\* C21: generate_sample_payload never raises: for every event name, known
\* or not, and whatever the database holds, also when it holds no
\* checkout, page, fulfillment, product or matching order, it returns the
\* decoded sample payload or None
C21_SamplePayloadNeverRaises ==
    call = "generate_sample_payload" => raised = "none"

(***************************************************************************)
(* Federation references.                                                  *)
(***************************************************************************)
\* C22: App.__resolve_references never raises a permission error: for a
\* requestor without MANAGE_APPS every reference resolves to nothing, as
\* against an empty set of apps, and for a requestor with MANAGE_APPS every
\* reference resolves to the app of resolve_apps with its id, or to nothing
\* when there is none
C22_ReferencesAreNeverRefused ==
    gql.resolver = "__resolve_references" =>
        /\ gql.outcome = "returned"
        /\ gql.permissions = <<>>
        /\ Len(gql.data) = Len(gql.args.roots)
        /\ \A i \in 1..Len(gql.data) :
              IF GqlManagesApps
              THEN /\ gql.data[i] = Null
                        <=> gql.args.roots[i] \notin
                              {to_global_id("App", Some(app.id)) :
                                  app \in resolve_apps(gql.context)}
                   /\ gql.data[i] # Null
                        => /\ gql.data[i][1] \in resolve_apps(gql.context)
                           /\ to_global_id("App", Some(gql.data[i][1].id))
                                = gql.args.roots[i]
              ELSE gql.data[i] = Null

\* C22 witness: app 1, which holds no permission, asks for the reference
\* to itself and gets nothing
C22_Witness ==
    /\ gql.resolver = "__resolve_references"
    /\ gql.outcome = "returned"
    /\ gql.context.app # Null
    /\ gql.context.app[1].id = 1
    /\ gql.context.app[1].perms = {}
    /\ gql.args.roots = <<"App:1">>
    /\ gql.data = <<Null>>

(***************************************************************************)
(* Sale payload.                                                           *)
(***************************************************************************)
\* the ids a catalogue argument holds under a key: none when the catalogue
\* is omitted or has nothing under the key
CatalogueIdsOf(catalogue, key) ==
    IF catalogue = Null THEN {}
    ELSE IF key \in DOMAIN catalogue[1] THEN catalogue[1][key]
    ELSE {}

\* the catalogue argument as a defaultdict
CatalogueOf(catalogue) == IF catalogue = Null THEN <<>> ELSE catalogue[1]

\* C23: in the sale payload, for each of categories, collections, products
\* and variants, <key>_added holds exactly the ids of the current catalogue
\* that are not in the previous one and <key>_removed exactly those of the
\* previous one that are not in the current one; the two are disjoint, both
\* are empty when the catalogues agree on the key, _calculate_removed(p, c,
\* k) is _calculate_added(c, p, k), and with both catalogues omitted all
\* eight are empty
C23_SaleAddedAndRemoved ==
    call = "generate_sale_payload" =>
        /\ raised = "none"
        /\ \A key \in CatalogueKeys :
              LET added == payload[1][key \o "_added"]
                  removed == payload[1][key \o "_removed"]
                  previous == CatalogueIdsOf(ent.previous_catalogue, key)
                  current == CatalogueIdsOf(ent.current_catalogue, key)
              IN  /\ added = {id \in current : id \notin previous}
                  /\ removed = {id \in previous : id \notin current}
                  /\ added \cap removed = {}
                  /\ previous = current => added = {} /\ removed = {}
                  /\ _calculate_removed(CatalogueOf(ent.previous_catalogue),
                                        CatalogueOf(ent.current_catalogue), key)
                       = _calculate_added(CatalogueOf(ent.current_catalogue),
                                          CatalogueOf(ent.previous_catalogue),
                                          key)
                  /\ removed
                       = _calculate_removed(
                             CatalogueOf(ent.previous_catalogue),
                             CatalogueOf(ent.current_catalogue), key)
                  /\ (ent.previous_catalogue = Null
                         /\ ent.current_catalogue = Null)
                       => added = {} /\ removed = {}

\* C23 witness: a sale whose products went from a to b, with no other key
\* in either catalogue
C23_Witness ==
    /\ call = "generate_sale_payload"
    /\ raised = "none"
    /\ payload[1].products_added = {"b"}
    /\ payload[1].products_removed = {"a"}
    /\ payload[1].categories_added = {}
    /\ payload[1].variants_removed = {}

(***************************************************************************)
(* Anonymized samples.                                                     *)
(***************************************************************************)
\* the checkout payload built for the anonymized copy of the sampled
\* checkout
AnonymizedCheckoutPayload ==
    generate_checkout_payload(anonymize_checkout(args.sample[1]), Null,
                              now - 1).payload

\* C24: generate_sample_payload builds no order, checkout or fulfillment
\* sample from a raw entity: the entity a payload is generated for, also
\* the order of a sampled fulfillment, has been anonymized before, so the
\* payload carries the generated personal data, not the stored one; in a
\* checkout sample the token is the fixed value
\* 00000000-0000-0000-0000-000000000001 and every other field is as in the
\* payload of the anonymized checkout
C24_SamplesAreAnonymized ==
    (call = "generate_sample_payload" /\ args.sample # Null) =>
        /\ args.event_name \in OrderSampleEvents
            => /\ ent.user_email = FakeEmail
               /\ raised = "none"
                    => /\ Len(payload) = 1
                       /\ payload[1].user_email = FakeEmail
                       /\ payload =
                            generate_order_payload(
                                anonymize_order(args.sample[1]), Null, TRUE,
                                now - 1).payload
        /\ args.event_name = "fulfillment_created"
            => /\ ent.order.user_email = FakeEmail
               /\ raised = "none"
                    => /\ Len(payload) = 1
                       /\ payload[1].order.user_email = FakeEmail
        /\ args.event_name \in CheckoutSampleEvents
            => /\ ent.email = FakeEmail
               /\ raised = "none"
                    => /\ Len(payload) = 1
                       /\ payload[1].email = FakeEmail
                       /\ payload[1].token = SampleToken
                       /\ AnonymizedCheckoutPayload[1].token # SampleToken
                       /\ [payload[1] EXCEPT
                              !.token = AnonymizedCheckoutPayload[1].token]
                            = AnonymizedCheckoutPayload[1]

\* C24 witness: the sample of a checkout event, built for a stored checkout
\* with an email of its own, carries the fixed token and the generated email
C24_Witness ==
    /\ call = "generate_sample_payload"
    /\ args.event_name = "checkout_created"
    /\ args.sample # Null
    /\ args.sample[1].email # FakeEmail
    /\ raised = "none"
    /\ payload[1].token = SampleToken
    /\ payload[1].email = FakeEmail

(***************************************************************************)
(* Repeated generation.                                                    *)
(***************************************************************************)
RepeatableBuilders ==
    {"generate_order_payload", "generate_checkout_payload",
     "generate_fulfillment_payload", "generate_invoice_payload"}

\* the objects of a payload without the time their meta was issued at
WithoutIssuedAt(objects) ==
    [i \in 1..Len(objects) |->
        IF "meta" \in DOMAIN objects[i]
        THEN [objects[i] EXCEPT !.meta = [k \in DOMAIN @ \ {"issued_at"} |-> @[k]]]
        ELSE objects[i]]

\* the builder that has just returned is called again, for the same
\* requestor and with the same arguments, and returns
CalledAgain ==
    /\ BuilderReturns
    /\ call \in RepeatableBuilders
    /\ raised = "none"
    /\ call' = call
    /\ req' = req
    /\ args' = args

\* C25: payload generation is repeatable: the order, checkout, fulfillment
\* or invoice payload generated again for the same entity and requestor is
\* the payload generated before except for meta.issued_at; its amounts are
\* those of the payload before
C25_GenerationIsRepeatable ==
    [][CalledAgain => WithoutIssuedAt(payload') = WithoutIssuedAt(payload)]_vars

\* C25 witness: an order payload generated for an order whose total has
\* been quantized in place by an earlier call of the same dispatch
C25_Witness ==
    /\ call = "generate_order_payload"
    /\ raised = "none"
    /\ now = 2
    /\ args.with_meta
    /\ payload[1].meta.issued_at = 1
    /\ ent.total_net_amount = 1230
    /\ payload[1].total_net_amount = 1230

(***************************************************************************)
(* Fulfillment-line totals.                                                *)
(***************************************************************************)
\* the totals of the serialized fulfillment lines are those of the
\* fulfillment's lines
LineTotalsOf(serialized, fulfillment_lines) ==
    /\ Len(serialized) = Len(fulfillment_lines)
    /\ \A i \in 1..Len(serialized) :
          LET data == serialized[i]
              fl == fulfillment_lines[i]
              ol == fl.order_line
          IN  /\ data.quantity = fl.quantity
              /\ IsQuantizedValueOf(data.undiscounted_unit_price_net,
                                    ol.undiscounted_unit_price_net_amount,
                                    ol.currency)
              /\ IsQuantizedValueOf(data.undiscounted_unit_price_gross,
                                    ol.undiscounted_unit_price_gross_amount,
                                    ol.currency)
              /\ data.total_price_net_amount
                   = data.undiscounted_unit_price_net * fl.quantity
              /\ data.total_price_gross_amount
                   = data.undiscounted_unit_price_gross * fl.quantity

\* C26: in every fulfillment-line payload, of a fulfillment payload or of
\* the fulfillments of an order payload, total_price_net_amount is the
\* quantized undiscounted unit net price of the order line times the
\* quantity of the fulfillment line, and total_price_gross_amount the
\* quantized undiscounted unit gross price times that quantity, whatever
\* the unit price of the line
C26_FulfillmentLineTotals ==
    /\ (call = "generate_fulfillment_payload" /\ raised = "none")
         => LineTotalsOf(payload[1].lines, ent.lines)
    /\ (call = "generate_order_payload" /\ raised = "none")
         => \A i \in 1..Len(ent.fulfillments) :
               LineTotalsOf(payload[1].fulfillments[i].lines,
                            ent.fulfillments[i].lines)

\* C26 witness: two of three units sold at 1.000 below their undiscounted
\* price of 1.234 USD are fulfilled; the total is twice 1.23, not the
\* quantized double of 1.234 and not twice the unit price
C26_Witness ==
    /\ call = "generate_fulfillment_payload"
    /\ raised = "none"
    /\ Len(payload[1].lines) = 1
    /\ ent.lines[1].order_line.quantity = 3
    /\ ent.lines[1].order_line.undiscounted_unit_price_net_amount = 1234
    /\ payload[1].lines[1].quantity = 2
    /\ payload[1].lines[1].currency = "USD"
    /\ payload[1].lines[1].unit_price_net = 1000
    /\ payload[1].lines[1].undiscounted_unit_price_net = 1230
    /\ payload[1].lines[1].total_price_net_amount = 2460
    /\ payload[1].lines[1].total_price_gross_amount = 2460

====
